---- MODULE Spec2Model ----
(***************************************************************************)
(* Model of the discovery-to-decision pipeline of the AI job discovery     *)
(* system: the deduplication store (src/utils/dedup.py), the record        *)
(* identity (src/models.py), the hard filter and the scorer                *)
(* (src/scoring/engine.py).                                                *)
(***************************************************************************)
EXTENDS Integers, Sequences, FiniteSets, TLC

VARIABLES
    file,           \* content of data/seen_jobs.json: [kind, ids]
    dataDir,        \* the data/ directory: "dir", "none" (creatable), "blocked"
    all_jobs,       \* the batch handed to filter_new_jobs (records mutated in place)
    new_idx,        \* positions in all_jobs of the records the last call returned
    lastSave,       \* how the save of the last filter_new_jobs call on this batch ended
    prevSave,       \* the same for the call before it
    everInput,      \* identities that were input of a call since the last clear_cache
    anySaveFailed,  \* some save failed since the last clear_cache
    assigned,       \* every <<triple, job_id>> a record ever carried
    op,             \* the operation that produced this state
    tick,           \* flips at every filter_new_jobs call
    rec,            \* the record a per-record stage works on
    kept,           \* what apply_hard_filters returned for rec
    cosine,         \* cosine similarity of rec and the profile, in 1/10000
    pc,             \* the stage rec has reached
    filtered_jobs,  \* the scored records handed to rank_jobs
    min_score,      \* settings.scoring minimum_score, in hundredths
    top_n,          \* settings.scoring top_n_jobs
    ranked_jobs,    \* what rank_jobs returned
    rank_result,    \* "none", "returned" or "raised"
    now,            \* datetime.now(): [year, month, day, hour]
    posted_date,    \* what detect_posted_date returned for rec
    too_old,        \* what is_job_too_old returned
    stale,          \* what is_likely_stale returned
    run_pc,         \* where run_pipeline / main stands
    skip_dedup,     \* the --skip-dedup argument
    stages,         \* the stages this run has entered, in order
    fresh_input,    \* the batch the freshness stage was entered with
    printed,        \* the markers the run has printed
    ended_by,       \* how run_pipeline ended: "returned" or "raised"
    exit_code,      \* the status of sys.exit, -1 while running
    llm_jobs,       \* the batch of step 3; records parsed so far carry their flags
    llm_none,       \* per parsed record: extract_flags_with_llm returned None
    fallback_asked, \* per parsed record: the use_fallback of the call
    fallback_used,  \* per parsed record: the used_fallback the call returned
    profile,        \* config/profile.yaml: the profile as shipped, or an edited one
    candidate_embedding, \* _candidate_embedding: <<>> or the embedding of a profile
    other_cosine,   \* cosine of rec and the edited profile, in 1/10000
    groq_pc,        \* _call_groq_api: "idle", "loop", "returned" or "raised"
    attempt,        \* the attempt of the for loop
    answered,       \* the answers to the HTTP requests of the call, in order
    waited,         \* seconds slept after 429 answers
    n_keys,         \* len(_api_keys) once loaded
    current_key_index, \* _current_key_index
    company_cache,  \* _company_cache: per cache key <<>> or the cached enrichment
    last_api_call,  \* _last_api_call, in tenths of a second
    api_calls_made, \* _api_calls_made
    clock,          \* time.time(), in tenths of a second
    requests,       \* the times at which client.search was called, in order
    tavily_available, \* get_tavily_client() returns a client
    looked,         \* the calls of search_company_info since the last clear_cache
    search_returned, \* <<>> or what the last search_company_info returned
    search_calls    \* calls of search_company_info so far

dedupVars == <<file, dataDir, all_jobs, new_idx, lastSave, prevSave,
               everInput, anySaveFailed, assigned, op, tick>>

jobVars == <<rec, kept, cosine, pc>>

rankVars == <<filtered_jobs, min_score, top_n, ranked_jobs, rank_result>>

freshVars == <<now, posted_date, too_old, stale>>

runVars == <<run_pc, skip_dedup, stages, fresh_input, printed, ended_by, exit_code>>

parseVars == <<llm_jobs, llm_none, fallback_asked, fallback_used>>

embedVars == <<profile, candidate_embedding, other_cosine>>

groqVars == <<groq_pc, attempt, answered, waited, n_keys, current_key_index>>

searchVars == <<company_cache, last_api_call, api_calls_made, clock, requests, tavily_available, looked, search_returned, search_calls>>

vars == <<dedupVars, jobVars, rankVars, freshVars, runVars, parseVars, embedVars, groqVars, searchVars>>

\* what the steps on one group of variables leave alone
exceptDedup == <<jobVars, rankVars, freshVars, runVars, parseVars, embedVars, groqVars, searchVars>>
exceptJob == <<dedupVars, rankVars, freshVars, runVars, parseVars, embedVars, groqVars, searchVars>>
exceptRank == <<dedupVars, jobVars, freshVars, runVars, parseVars, embedVars, groqVars, searchVars>>
exceptFresh == <<dedupVars, rankVars, runVars, parseVars, embedVars, groqVars, searchVars>>
exceptParse == <<dedupVars, jobVars, rankVars, freshVars, runVars, embedVars, groqVars, searchVars>>
exceptSearch == <<dedupVars, jobVars, rankVars, freshVars, runVars, parseVars, embedVars, groqVars>>
exceptGroq == <<dedupVars, jobVars, rankVars, freshVars, runVars, parseVars, embedVars, searchVars>>
exceptEmbed == <<dedupVars, rankVars, freshVars, runVars, parseVars, groqVars, searchVars>>

None == "None"

Range(s) == {s[i] : i \in DOMAIN s}

-----------------------------------------------------------------------------
(* Bounds and input sets *)

MaxBatch == 2

\* (url, title, company) triples the scrapers deliver
JobTriples ==
    { <<"x.co/1", "AI Eng", "Acme|Labs">>,
      <<"x.co/1", "AI Eng|Acme", "Labs">>,
      <<"x.co/2", "AI Eng", "Acme|Labs">> }

\* the other fields of a delivered record: its description, and whether the
\* scraper already called generate_job_id
JobVariants ==
    { [description |-> "", withId |-> FALSE],
      [description |-> "Build RAG", withId |-> TRUE] }

\* characters of a JSON string found where the list of ids should be
StrChars == {"7", "f"}

-----------------------------------------------------------------------------
(* Record identity: models.py *)

Triple(job) == <<job.url, job.title, job.company>>

\* hashlib.md5(content.encode()).hexdigest()[:16], tabulated on the inputs used
MD5Hex16(content) ==
    CASE content = "x.co/1|AI Eng|Acme|Labs" -> "639090043748d1dc"
      [] content = "x.co/1|AI Eng|Acme|Labs|" -> "98dd19cf044c0bcc"
      [] content = "x.co/1|AI Eng|Acme|Labs|Build RAG" -> "b236919a4cd1f70c"
      [] content = "x.co/2|AI Eng|Acme|Labs" -> "3491fda258ed4e4e"
      [] content = "x.co/2|AI Eng|Acme|Labs|" -> "cb5f08bbe7dd3329"
      [] content = "x.co/2|AI Eng|Acme|Labs|Build RAG" -> "a388ac12b6c54bdb"

\* mutant: the description takes part in the identity
GenerateJobIdWithDescription(job) ==
    MD5Hex16(job.url \o "|" \o job.title \o "|" \o job.company
                     \o "|" \o job.description)

\* Job.generate_job_id: f"{self.url}|{self.title}|{self.company}"
GenerateJobId(job) ==
    MD5Hex16(job.url \o "|" \o job.title \o "|" \o job.company)

JobIds == { MD5Hex16(t[1] \o "|" \o t[2] \o "|" \o t[3]) : t \in JobTriples }

\* a record as a scraper delivers it: job_id unset, or set by generate_job_id
NewJob(t, d, withId) ==
    LET j == [url |-> t[1], title |-> t[2], company |-> t[3],
              description |-> d, job_id |-> None]
    IN  IF withId THEN [j EXCEPT !.job_id = GenerateJobId(j)] ELSE j

-----------------------------------------------------------------------------
(* Deduplication store: utils/dedup.py *)

MissingFile == [kind |-> "missing", ids |-> {}]
TruncatedFile == [kind |-> "notjson", ids |-> {}]

\* load_seen_jobs: the set of the elements of data["seen_ids"]; a missing file
\* and every exception give set().  set() of a JSON string is the set of its
\* characters.
LoadSeenJobs(f) ==
    IF f.kind = "missing" THEN {}
    ELSE IF f.kind \in {"list", "str"} THEN f.ids
    ELSE {}

SaveOutcomes == {"saved", "open_failed", "write_failed"}

\* mutant: the save writes nothing
SaveSeenJobsNoWrite(f, dir, seen_ids, io) ==
    IF dir = "blocked"
    THEN [file |-> f, dir |-> dir, outcome |-> "mkdir_raised"]
    ELSE [file |-> f, dir |-> "dir", outcome |-> io]

\* save_seen_jobs: mkdir (outside the try), then open(.., "w") and json.dump
\* inside it.  io is what the file system does to the open and the write.
SaveSeenJobs(f, dir, seen_ids, io) ==
    IF dir = "blocked"
    THEN [file |-> f, dir |-> dir, outcome |-> "mkdir_raised"]
    ELSE CASE io = "saved" ->
                [file |-> [kind |-> "list", ids |-> seen_ids],
                 dir |-> "dir", outcome |-> io]
           [] io = "open_failed" ->
                [file |-> f, dir |-> "dir", outcome |-> io]
           [] io = "write_failed" ->
                [file |-> TruncatedFile, dir |-> "dir", outcome |-> io]

\* mutant: the loop checks the store only and forgets the ids of this batch
RECURSIVE FilterLoopNoAdd(_, _, _, _)
FilterLoopNoAdd(jobs, i, seen_ids, idx) ==
    IF i > Len(jobs) THEN [jobs |-> jobs, seen_ids |-> seen_ids, idx |-> idx]
    ELSE LET job == jobs[i]
             id  == IF job.job_id = None THEN GenerateJobId(job) ELSE job.job_id
             js  == [jobs EXCEPT ![i].job_id = id]
         IN  IF id \notin seen_ids
             THEN FilterLoopNoAdd(js, i + 1, seen_ids, Append(idx, i))
             ELSE FilterLoopNoAdd(js, i + 1, seen_ids, idx)

\* the loop of filter_new_jobs over jobs[i..]
RECURSIVE FilterLoop(_, _, _, _)
FilterLoop(jobs, i, seen_ids, idx) ==
    IF i > Len(jobs) THEN [jobs |-> jobs, seen_ids |-> seen_ids, idx |-> idx]
    ELSE LET job == jobs[i]
             id  == IF job.job_id = None THEN GenerateJobId(job) ELSE job.job_id
             js  == [jobs EXCEPT ![i].job_id = id]
         IN  IF id \notin seen_ids
             THEN FilterLoop(js, i + 1, seen_ids \cup {id}, Append(idx, i))
             ELSE FilterLoop(js, i + 1, seen_ids, idx)

\* mutant: the save stores the ids of the new records only, not the union
FilterNewJobsSaveNewOnly(jobs, f, dir, io) ==
    LET loop == FilterLoop(jobs, 1, LoadSeenJobs(f), <<>>)
        save == SaveSeenJobs(f, dir,
                             { loop.jobs[loop.idx[k]].job_id : k \in DOMAIN loop.idx },
                             io)
    IN  [jobs |-> loop.jobs, file |-> save.file, dir |-> save.dir,
         outcome |-> save.outcome,
         raised |-> save.outcome = "mkdir_raised",
         idx |-> IF save.outcome = "mkdir_raised" THEN <<>> ELSE loop.idx]

\* filter_new_jobs(jobs): load, loop, save, return new_jobs
FilterNewJobs(jobs, f, dir, io) ==
    LET loop == FilterLoop(jobs, 1, LoadSeenJobs(f), <<>>)
        save == SaveSeenJobs(f, dir, loop.seen_ids, io)
    IN  [jobs |-> loop.jobs, file |-> save.file, dir |-> save.dir,
         outcome |-> save.outcome,
         raised |-> save.outcome = "mkdir_raised",
         idx |-> IF save.outcome = "mkdir_raised" THEN <<>> ELSE loop.idx]

\* the list filter_new_jobs returned
new_jobs == [k \in DOMAIN new_idx |-> all_jobs[new_idx[k]]]

Returned == op = "filter" /\ lastSave # "mkdir_raised"

IdsOf(jobs) == { jobs[i].job_id : i \in DOMAIN jobs } \ {None}

Pairs(jobs) == { <<Triple(jobs[i]), jobs[i].job_id>> :
                    i \in { k \in DOMAIN jobs : jobs[k].job_id # None } }

-----------------------------------------------------------------------------
(* Text: Python str as a sequence of characters *)

UpperChars == <<"A", "B", "C", "D", "E", "F", "G", "H", "I", "J", "K", "L", "M",
                "N", "O", "P", "Q", "R", "S", "T", "U", "V", "W", "X", "Y", "Z">>
LowerChars == <<"a", "b", "c", "d", "e", "f", "g", "h", "i", "j", "k", "l", "m",
                "n", "o", "p", "q", "r", "s", "t", "u", "v", "w", "x", "y", "z">>

\* str.lower()
Lower(text) ==
    [i \in DOMAIN text |->
        IF \E k \in DOMAIN UpperChars : UpperChars[k] = text[i]
        THEN LowerChars[CHOOSE k \in DOMAIN UpperChars : UpperChars[k] = text[i]]
        ELSE text[i]]

\* keyword in text
Contains(text, keyword) ==
    \E i \in 1..(Len(text) - Len(keyword) + 1) :
        SubSeq(text, i, i + Len(keyword) - 1) = keyword

\* f"{title} {description}".lower()
CombinedText(j) == Lower(j.title \o <<" ">> \o j.description)

-----------------------------------------------------------------------------
(* Flags and records: models.py.  Optional[T] is <<>> (None) or <<value>>. *)

CompanyTypes == {"startup", "midsize", "enterprise", "consulting", "unknown"}
ExperienceLevels == {"intern", "junior", "mid", "senior", "lead", "unknown"}

\* ExtractedFlags()
DefaultFlags ==
    [has_llm |-> FALSE, has_rag |-> FALSE, has_agents |-> FALSE,
     has_langchain |-> FALSE, has_langgraph |-> FALSE, has_fastapi |-> FALSE,
     has_aws |-> FALSE, has_voice_ai |-> FALSE, has_backend |-> FALSE,
     company_type |-> "unknown", is_ai_native |-> FALSE,
     experience_level |-> "unknown", requires_phd |-> FALSE,
     requires_publications |-> FALSE, years_required |-> <<>>,
     research_heavy |-> FALSE, cv_heavy |-> FALSE, is_unpaid |-> FALSE,
     is_onsite_only |-> FALSE]

\* Job(title=.., description=.., remote=..) with the defaults of the model
MakeJob(title, description, remote, flags, enrichment) ==
    [title |-> title, description |-> description, remote |-> remote,
     extracted_flags |-> flags, company_enrichment |-> enrichment,
     score |-> <<>>, score_breakdown |-> <<>>, why_matched |-> <<>>]

-----------------------------------------------------------------------------
(* Hard filter: scoring/engine.py *)

\* ai_keywords
AiKeywords ==
    { <<"l", "l", "m">>,
      <<"l", "a", "r", "g", "e", " ", "l", "a", "n", "g", "u", "a", "g", "e", " ", "m", "o", "d", "e", "l">>,
      <<"g", "p", "t">>,
      <<"g", "e", "n", "a", "i">>,
      <<"g", "e", "n", "e", "r", "a", "t", "i", "v", "e", " ", "a", "i">>,
      <<"r", "a", "g">>,
      <<"r", "e", "t", "r", "i", "e", "v", "a", "l", " ", "a", "u", "g", "m", "e", "n", "t", "e", "d">>,
      <<"a", "g", "e", "n", "t", "i", "c">>,
      <<"a", "g", "e", "n", "t">>,
      <<"l", "a", "n", "g", "c", "h", "a", "i", "n">>,
      <<"m", "a", "c", "h", "i", "n", "e", " ", "l", "e", "a", "r", "n", "i", "n", "g">>,
      <<"m", "l", " ", "e", "n", "g", "i", "n", "e", "e", "r">>,
      <<"a", "i", " ", "e", "n", "g", "i", "n", "e", "e", "r">>,
      <<"a", "p", "p", "l", "i", "e", "d", " ", "a", "i">>,
      <<"t", "r", "a", "n", "s", "f", "o", "r", "m", "e", "r">>,
      <<"e", "m", "b", "e", "d", "d", "i", "n", "g">>,
      <<"p", "r", "o", "m", "p", "t", " ", "e", "n", "g", "i", "n", "e", "e", "r", "i", "n", "g">>,
      <<"f", "i", "n", "e", "-", "t", "u", "n", "i", "n", "g">>,
      <<"v", "e", "c", "t", "o", "r", " ", "d", "a", "t", "a", "b", "a", "s", "e">>,
      <<"n", "l", "p">>,
      <<"n", "a", "t", "u", "r", "a", "l", " ", "l", "a", "n", "g", "u", "a", "g", "e">> }

\* has_ai_keyword = any(keyword in combined_text for keyword in ai_keywords)
HasAiKeyword(j) ==
    LET combined_text == CombinedText(j)
    IN  \E keyword \in AiKeywords : Contains(combined_text, keyword)

\* has_ai_flags
HasAiFlags(flags) ==
    flags.has_llm \/ flags.has_rag \/ flags.has_agents
        \/ flags.has_langchain \/ flags.has_langgraph

\* mutant: the seniority check tests for lead only
ApplyHardFiltersLeadOnly(j) ==
    IF j.extracted_flags = <<>> THEN TRUE
    ELSE LET flags == j.extracted_flags[1]
         IN  IF flags.is_unpaid THEN FALSE
             ELSE IF flags.requires_phd THEN FALSE
             ELSE IF flags.experience_level \in {"lead"} THEN FALSE
             ELSE IF ~HasAiKeyword(j) /\ ~HasAiFlags(flags) THEN FALSE
             ELSE TRUE

\* apply_hard_filters(job): True to keep the record
ApplyHardFilters(j) ==
    IF j.extracted_flags = <<>> THEN TRUE
    ELSE LET flags == j.extracted_flags[1]
         IN  IF flags.is_unpaid THEN FALSE
             ELSE IF flags.requires_phd THEN FALSE
             ELSE IF flags.experience_level \in {"senior", "lead"} THEN FALSE
             ELSE IF ~HasAiKeyword(j) /\ ~HasAiFlags(flags) THEN FALSE
             ELSE TRUE

-----------------------------------------------------------------------------
(* Inputs of the hard filter *)

T_MLEngineer == <<"M", "L", " ", "E", "n", "g", "i", "n", "e", "e", "r">>
T_StorageAdmin == <<"S", "t", "o", "r", "a", "g", "e", " ", "A", "d", "m", "i", "n">>
T_WebDeveloper == <<"W", "e", "b", " ", "D", "e", "v", "e", "l", "o", "p", "e", "r">>
T_Applied == <<"A", "p", "p", "l", "i", "e", "d">>
D_Empty == <<>>
D_AiTools == <<"A", "I", " ", "t", "o", "o", "l", "s">>
D_SellAds == <<"S", "e", "l", "l", " ", "a", "d", "s">>

FilterTitles == {T_MLEngineer, T_StorageAdmin, T_WebDeveloper, T_Applied}
FilterDescriptions == {D_Empty, D_AiTools, D_SellAds}

\* the flags apply_hard_filters reads, over all their values
FilterFlagSets ==
    { [DefaultFlags EXCEPT !.is_unpaid = u, !.requires_phd = p,
                           !.experience_level = l, !.has_llm = a[1],
                           !.has_rag = a[2], !.has_agents = a[3],
                           !.has_langchain = a[4], !.has_langgraph = a[5]] :
        u \in BOOLEAN, p \in BOOLEAN, l \in ExperienceLevels,
        a \in [1..5 -> BOOLEAN] }

IdleDedup ==
    /\ file = MissingFile
    /\ dataDir = "dir"
    /\ all_jobs = <<>>
    /\ new_idx = <<>>
    /\ lastSave = "none"
    /\ prevSave = "none"
    /\ everInput = {}
    /\ anySaveFailed = FALSE
    /\ assigned = {}
    /\ op = "init"
    /\ tick = 0

IdleFresh ==
    /\ now = [year |-> 2026, month |-> 1, day |-> 1, hour |-> 0]
    /\ posted_date = <<>>
    /\ too_old = FALSE
    /\ stale = FALSE

IdleParse ==
    /\ llm_jobs = <<>>
    /\ llm_none = <<>>
    /\ fallback_asked = <<>>
    /\ fallback_used = <<>>

IdleEmbed ==
    /\ profile = "shipped"
    /\ candidate_embedding = <<>>
    /\ other_cosine = 0

IdleGroq ==
    /\ groq_pc = "idle"
    /\ attempt = 0
    /\ answered = <<>>
    /\ waited = 0
    /\ n_keys = 0
    /\ current_key_index = 0

IdleSearch ==
    /\ company_cache = <<>>
    /\ last_api_call = 0
    /\ api_calls_made = 0
    /\ clock = 0
    /\ requests = <<>>
    /\ tavily_available = FALSE
    /\ looked = <<>>
    /\ search_returned = <<>>
    /\ search_calls = 0

IdleRun ==
    /\ run_pc = "idle"
    /\ skip_dedup = FALSE
    /\ stages = <<>>
    /\ fresh_input = <<>>
    /\ printed = {}
    /\ ended_by = "none"
    /\ exit_code = -1

IdleRank ==
    /\ filtered_jobs = <<>>
    /\ min_score = 0
    /\ top_n = 0
    /\ ranked_jobs = <<>>
    /\ rank_result = "none"

IdleJob ==
    /\ rec = MakeJob(<<>>, <<>>, FALSE, <<>>, <<>>)
    /\ kept = FALSE
    /\ cosine = 0
    /\ pc = "idle"

InitFilter ==
    /\ IdleSearch
    /\ IdleGroq
    /\ IdleEmbed
    /\ IdleDedup
    /\ IdleRank
    /\ IdleFresh
    /\ IdleRun
    /\ IdleParse
    /\ \E t \in FilterTitles, d \in FilterDescriptions,
          f \in {<<>>} \cup { <<x>> : x \in FilterFlagSets } :
          rec = MakeJob(t, d, FALSE, f, <<>>)
    /\ kept = FALSE
    /\ cosine = 0
    /\ pc = "extracted"

\* run_pipeline step 4: apply_hard_filters(job)
ApplyHardFiltersCall ==
    /\ pc = "extracted"
    /\ kept' = ApplyHardFilters(rec)
    /\ pc' = "filtered"
    /\ UNCHANGED <<rec, cosine>>
    /\ UNCHANGED exceptJob

NextFilter == ApplyHardFiltersCall

SpecFilter == InitFilter /\ [][NextFilter]_vars

-----------------------------------------------------------------------------
(* Scorer: scoring/engine.py.  Points are kept in hundredths: round(x, 2). *)

Pts(n) == n * 100

Min(a, b) == IF a < b THEN a ELSE b
Max(a, b) == IF a > b THEN a ELSE b

Truthy(opt) == opt # <<>> /\ opt[1] # 0

\* compute_semantic_similarity: round(max(0, similarity) * 40, 2), for a cosine
\* given in 1/10000
SemanticSimilarity(cos) ==
    (Max(0, cos) * 40 + 50) \div 100

SkillTable ==
    << [flag |-> {"has_llm"}, points |-> 7, reason |-> "LLM experience"],
       [flag |-> {"has_rag"}, points |-> 6, reason |-> "RAG systems"],
       [flag |-> {"has_agents"}, points |-> 6, reason |-> "Agentic workflows"],
       [flag |-> {"has_langchain", "has_langgraph"}, points |-> 4,
        reason |-> "LangChain/LangGraph"],
       [flag |-> {"has_voice_ai"}, points |-> 4, reason |-> "Voice AI experience"],
       [flag |-> {"has_fastapi"}, points |-> 2, reason |-> "FastAPI"],
       [flag |-> {"has_aws"}, points |-> 2, reason |-> "AWS"] >>

\* the if-chain of compute_skill_match from entry k on
RECURSIVE SkillChain(_, _, _, _)
SkillChain(flags, k, score, reasons) ==
    IF k > Len(SkillTable) THEN [score |-> score, reasons |-> reasons]
    ELSE IF \E a \in SkillTable[k].flag : flags[a]
         THEN SkillChain(flags, k + 1, score + SkillTable[k].points,
                         Append(reasons, SkillTable[k].reason))
         ELSE SkillChain(flags, k + 1, score, reasons)

\* mutant: the cap at 25 is missing
ComputeSkillMatchNoCap(flags) ==
    LET r == SkillChain(flags, 1, 0, <<>>)
    IN  [score |-> Pts(r.score), reasons |-> r.reasons]

\* compute_skill_match(flags)
ComputeSkillMatch(flags) ==
    LET r == SkillChain(flags, 1, 0, <<>>)
    IN  [score |-> Pts(Min(r.score, 25)), reasons |-> r.reasons]

\* mutant: years_required is ignored
ComputeExperienceFitLevelOnly(flags) ==
    LET level == flags.experience_level
    IN  [score |-> Pts(CASE level \in {"intern", "junior"} -> 15
                         [] level = "unknown" -> 10
                         [] level = "mid" -> 5
                         [] OTHER -> 0),
         reasons |-> <<"level">>]

\* compute_experience_fit(flags)
ComputeExperienceFit(flags) ==
    LET level == flags.experience_level
        base ==
            CASE level = "intern"  -> [score |-> 15,
                                       reason |-> "Intern-level role (perfect fit)"]
              [] level = "junior"  -> [score |-> 15,
                                       reason |-> "Junior-level role (perfect fit)"]
              [] level = "unknown" -> [score |-> 10,
                                       reason |-> "Experience level not specified"]
              [] level = "mid"     -> [score |-> 5,
                                       reason |-> "Mid-level role (stretch)"]
              [] OTHER             -> [score |-> 0,
                                       reason |-> "Senior role (mismatch)"]
        score ==
            IF flags.years_required = <<>> THEN base.score
            ELSE IF flags.years_required[1] <= 2 THEN Max(base.score, 12)
            ELSE IF flags.years_required[1] <= 4 THEN Min(base.score, 7)
            ELSE Min(base.score, 2)
    IN  [score |-> Pts(score), reasons |-> <<base.reason>>]

\* glassdoor_rating, kept in tenths, as the f-string prints it
RatingText(r) == ToString(r \div 10) \o "." \o ToString(r % 10)

\* str.lower() on the funding stages used
LowerStage(stage) ==
    CASE stage = "Seed" -> "seed"
      [] stage = "Series A" -> "series a"
      [] stage = "Series C" -> "series c"
      [] OTHER -> stage

\* compute_company_signal, the branch "if enrichment:"
CompanySignalEnriched(e) ==
    LET s1 == IF Truthy(e.employee_count)
              THEN LET n == e.employee_count[1]
                   IN  IF n < 200
                       THEN [score |-> 10, reasons |->
                               <<"Startup (" \o ToString(n) \o " employees)">>]
                       ELSE IF n < 2000
                       THEN [score |-> 7, reasons |->
                               <<"Mid-size (" \o ToString(n) \o " employees)">>]
                       ELSE [score |-> 4, reasons |->
                               <<"Enterprise (" \o ToString(n) \o "+ employees)">>]
              ELSE [score |-> 0, reasons |-> <<>>]
        s2 == IF e.is_ai_company
              THEN [score |-> Min(s1.score + 3, 10),
                    reasons |-> Append(s1.reasons, "AI-native company (verified)")]
              ELSE s1
        s3 == IF e.funding_stage # <<>> /\ e.funding_stage[1] # ""
                 /\ LowerStage(e.funding_stage[1]) \in {"seed", "series a", "series b"}
              THEN [score |-> Min(s2.score + 1, 10),
                    reasons |-> Append(s2.reasons, e.funding_stage[1] \o " stage")]
              ELSE s2
        s4 == IF Truthy(e.glassdoor_rating) /\ e.glassdoor_rating[1] >= 40
              THEN [score |-> Min(s3.score + 1, 10),
                    reasons |-> Append(s3.reasons,
                        "High Glassdoor rating (" \o RatingText(e.glassdoor_rating[1])
                                                  \o ")")]
              ELSE s3
    IN  [score |-> Pts(s4.score), reasons |-> s4.reasons]

\* compute_company_signal, the fallback on the extracted flags
CompanySignalFromFlags(flags) ==
    LET type == flags.company_type
        base ==
            CASE type = "startup"    -> [score |-> 10, reason |-> "AI-native startup"]
              [] type = "midsize"    -> [score |-> 7,
                                         reason |-> "Product-focused mid-size company"]
              [] type = "enterprise" -> [score |-> 4, reason |-> "Enterprise company"]
              [] type = "consulting" -> [score |-> 2, reason |-> "Consulting/services"]
              [] OTHER               -> [score |-> 5, reason |-> "Unknown company type"]
    IN  IF flags.is_ai_native
        THEN [score |-> Pts(Min(base.score + 2, 10)),
              reasons |-> IF type = "startup" THEN <<base.reason>>
                          ELSE <<base.reason, "AI-native company">>]
        ELSE [score |-> Pts(base.score), reasons |-> <<base.reason>>]

\* compute_company_signal(flags, enrichment): a BaseModel instance is truthy
ComputeCompanySignal(flags, enrichment) ==
    IF enrichment # <<>> THEN CompanySignalEnriched(enrichment[1])
    ELSE CompanySignalFromFlags(flags)

FullstackKeywords == { <<"f", "u", "l", "l", "s", "t", "a", "c", "k">>,
      <<"f", "u", "l", "l", " ", "s", "t", "a", "c", "k">>,
      <<"f", "u", "l", "l", "-", "s", "t", "a", "c", "k">> }
MobileKeywords == { <<"m", "o", "b", "i", "l", "e">>,
      <<"r", "e", "a", "c", "t", " ", "n", "a", "t", "i", "v", "e">>,
      <<"i", "o", "s">>,
      <<"a", "n", "d", "r", "o", "i", "d">>,
      <<"f", "l", "u", "t", "t", "e", "r">> }
DevopsKeywords == { <<"d", "e", "v", "o", "p", "s">>,
      <<"s", "r", "e">>,
      <<"i", "n", "f", "r", "a", "s", "t", "r", "u", "c", "t", "u", "r", "e">>,
      <<"p", "l", "a", "t", "f", "o", "r", "m", " ", "e", "n", "g", "i", "n", "e", "e", "r">> }
FrontendKeywords == { <<"f", "r", "o", "n", "t", "e", "n", "d">>,
      <<"f", "r", "o", "n", "t", "-", "e", "n", "d">>,
      <<"u", "i", " ", "e", "n", "g", "i", "n", "e", "e", "r">> }

TitlePenalties ==
    << [keywords |-> FullstackKeywords, points |-> 5,
        reason |-> "Fullstack role (not AI-focused)"],
       [keywords |-> MobileKeywords, points |-> 6,
        reason |-> "Mobile role (not AI-focused)"],
       [keywords |-> DevopsKeywords, points |-> 5,
        reason |-> "DevOps role (not AI-focused)"],
       [keywords |-> FrontendKeywords, points |-> 6,
        reason |-> "Frontend role (not AI-focused)"] >>

FlagPenalties ==
    << [flag |-> "research_heavy", points |-> 5, reason |-> "Research-heavy focus"],
       [flag |-> "cv_heavy", points |-> 4, reason |-> "CV-heavy role"],
       [flag |-> "requires_phd", points |-> 8, reason |-> "PhD required"],
       [flag |-> "requires_publications", points |-> 5,
        reason |-> "Publications required"],
       [flag |-> "is_onsite_only", points |-> 3, reason |-> "On-site only"] >>

\* the flag penalties of compute_penalties from entry k on
RECURSIVE FlagPenaltyChain(_, _, _, _)
FlagPenaltyChain(flags, k, adjustment, reasons) ==
    IF k > Len(FlagPenalties)
    THEN [adjustment |-> adjustment, reasons |-> reasons]
    ELSE IF flags[FlagPenalties[k].flag]
         THEN FlagPenaltyChain(flags, k + 1, adjustment - FlagPenalties[k].points,
                               Append(reasons, FlagPenalties[k].reason))
         ELSE FlagPenaltyChain(flags, k + 1, adjustment, reasons)

\* the title penalties of compute_penalties from entry k on
RECURSIVE TitlePenaltyChain(_, _, _, _)
TitlePenaltyChain(title_lower, k, adjustment, reasons) ==
    IF k > Len(TitlePenalties)
    THEN [adjustment |-> adjustment, reasons |-> reasons]
    ELSE IF \E keyword \in TitlePenalties[k].keywords : Contains(title_lower, keyword)
         THEN TitlePenaltyChain(title_lower, k + 1,
                                adjustment - TitlePenalties[k].points,
                                Append(reasons, TitlePenalties[k].reason))
         ELSE TitlePenaltyChain(title_lower, k + 1, adjustment, reasons)

\* compute_penalties(job, flags)
ComputePenalties(j, flags) ==
    LET p1 == FlagPenaltyChain(flags, 1, 0, <<>>)
        p2 == TitlePenaltyChain(Lower(j.title), 1, p1.adjustment, p1.reasons)
        p3 == IF j.remote
              THEN [adjustment |-> p2.adjustment + 3,
                    reasons |-> Append(p2.reasons, "Remote-friendly")]
              ELSE p2
    IN  [score |-> Pts(Max(-10, Min(10, p3.adjustment))), reasons |-> p3.reasons]

\* ScoreBreakdown.total
Total(b) ==
    b.similarity + b.skill_match + b.experience_fit + b.company_signal + b.penalties

\* mutant: the slice keeps the whole list
TakeAll(s, n) == s

\* list[:n]
Take(s, n) == SubSeq(s, 1, Min(n, Len(s)))

\* mutant: the record is returned as it came, unscored
ScoreJobNoDefault(j, cos) == j

\* score_job(job) with the cosine the embedding model gives
ScoreJob(j, cos) ==
    LET flags == IF j.extracted_flags = <<>> THEN DefaultFlags
                 ELSE j.extracted_flags[1]
        skill == ComputeSkillMatch(flags)
        exp == ComputeExperienceFit(flags)
        company == ComputeCompanySignal(flags, j.company_enrichment)
        penalty == ComputePenalties(j, flags)
        breakdown == [similarity |-> SemanticSimilarity(cos),
                      skill_match |-> skill.score,
                      experience_fit |-> exp.score,
                      company_signal |-> company.score,
                      penalties |-> penalty.score]
        why_matched ==
            Take(skill.reasons, 2)
              \o (IF exp.score >= Pts(10) THEN Take(exp.reasons, 1) ELSE <<>>)
              \o (IF company.score >= Pts(7) THEN Take(company.reasons, 1) ELSE <<>>)
    IN  [j EXCEPT !.extracted_flags = <<flags>>,
                  !.score_breakdown = <<breakdown>>,
                  !.score = <<Total(breakdown)>>,
                  !.why_matched = Take(why_matched, 3)]

------------------------------------------------------------------------\* mutant: the embedding of the profile is computed at every call
GetCandidateEmbeddingUncached(cache, prof) == <<prof>>

\* get_candidate_embedding(): _candidate_embedding after the call, computed
\* from the profile only while it is None
GetCandidateEmbedding(cache, prof) ==
    IF cache = <<>> THEN <<prof>> ELSE cache

Profiles == {"shipped", "edited"}

-----
(* Inputs of the scorer *)

T_FullstackIos == <<"F", "u", "l", "l", "s", "t", "a", "c", "k", " ", "i", "O", "S", " ", "D", "e", "v">>
T_DevopsFrontend == <<"D", "e", "v", "O", "p", "s", " ", "F", "r", "o", "n", "t", "-", "E", "n", "d">>
T_AllOffDomain == <<"F", "u", "l", "l", " ", "S", "t", "a", "c", "k", " ", "M", "o", "b", "i", "l", "e", " ", "S", "R", "E", " ", "U", "I", " ", "E", "n", "g", "i", "n", "e", "e", "r">>

ScoreTitles == {T_MLEngineer, T_FullstackIos, T_DevopsFrontend, T_AllOffDomain}

\* cosine similarities in 1/10000, -1 to 1
Cosines == {-10000, -1, 0, 3333, 9987, 10000}

SkillFlagSets ==
    { [DefaultFlags EXCEPT !.has_llm = a[1], !.has_rag = a[2], !.has_agents = a[3],
                           !.has_langchain = a[4], !.has_langgraph = a[5],
                           !.has_voice_ai = a[6], !.has_fastapi = a[7],
                           !.has_aws = a[8]] : a \in [1..8 -> BOOLEAN] }

YearsRequired == {<<>>, <<-1>>, <<0>>, <<2>>, <<3>>, <<4>>, <<5>>}

ExperienceFlagSets ==
    { [DefaultFlags EXCEPT !.experience_level = l, !.years_required = y] :
        l \in ExperienceLevels, y \in YearsRequired }

CompanyFlagSets ==
    { [DefaultFlags EXCEPT !.company_type = t, !.is_ai_native = n] :
        t \in CompanyTypes, n \in BOOLEAN }

PenaltyFlagSets ==
    { [DefaultFlags EXCEPT !.research_heavy = a[1], !.cv_heavy = a[2],
                           !.requires_phd = a[3], !.requires_publications = a[4],
                           !.is_onsite_only = a[5]] : a \in [1..5 -> BOOLEAN] }

\* every positive signal, and every negative one
BestFlags ==
    [DefaultFlags EXCEPT !.has_llm = TRUE, !.has_rag = TRUE, !.has_agents = TRUE,
                         !.has_langchain = TRUE, !.has_voice_ai = TRUE,
                         !.has_fastapi = TRUE, !.has_aws = TRUE,
                         !.company_type = "startup", !.is_ai_native = TRUE,
                         !.experience_level = "junior"]
WorstFlags ==
    [DefaultFlags EXCEPT !.experience_level = "lead", !.years_required = <<8>>,
                         !.company_type = "consulting", !.research_heavy = TRUE,
                         !.cv_heavy = TRUE, !.requires_phd = TRUE,
                         !.requires_publications = TRUE, !.is_onsite_only = TRUE]

\* CompanyEnrichment values: the fields compute_company_signal reads
Enrichments ==
    [employee_count : {<<>>, <<0>>, <<50>>, <<200>>, <<1999>>, <<2000>>},
     is_ai_company : BOOLEAN,
     funding_stage : {<<>>, <<"">>, <<"Seed">>, <<"Series C">>},
     glassdoor_rating : {<<>>, <<39>>, <<40>>, <<45>>}]

\* CompanyEnrichment()
EmptyEnrichment ==
    [employee_count |-> <<>>, is_ai_company |-> FALSE, funding_stage |-> <<>>,
     glassdoor_rating |-> <<>>]

\* cosines of rec and an edited profile
OtherCosines == {0, 9987}

ScoreInput(f, e, t, r, c) == [flags |-> f, enrichment |-> e, title |-> t,
                              remote |-> r, cosine |-> c]

ScoreInputs ==
    { ScoreInput(<<f>>, <<>>, T_MLEngineer, FALSE, c) :
        f \in SkillFlagSets \cup ExperienceFlagSets, c \in Cosines }
    \cup { ScoreInput(<<f>>, e, T_MLEngineer, FALSE, 3333) :
        f \in CompanyFlagSets, e \in {<<>>} \cup { <<x>> : x \in Enrichments } }
    \cup { ScoreInput(<<f>>, <<>>, t, r, 3333) :
        f \in PenaltyFlagSets, t \in ScoreTitles, r \in BOOLEAN }
    \cup { ScoreInput(f, e, t, r, c) :
        f \in {<<>>, <<BestFlags>>, <<WorstFlags>>},
        e \in {<<>>, <<EmptyEnrichment>>},
        t \in ScoreTitles, r \in BOOLEAN, c \in Cosines }

InitScore ==
    /\ IdleSearch
    /\ IdleGroq
    /\ IdleDedup
    /\ IdleRank
    /\ IdleFresh
    /\ IdleRun
    /\ IdleParse
    /\ \E in \in ScoreInputs :
          /\ rec = MakeJob(in.title, D_AiTools, in.remote, in.flags, in.enrichment)
          /\ cosine = in.cosine
    /\ kept = TRUE
    /\ pc = "filtered"
    /\ profile = "shipped"
    /\ candidate_embedding = <<>>
    /\ other_cosine \in OtherCosines

\* the cosine of rec and the candidate embedding
CosineWith(embedding) == IF embedding = "shipped" THEN cosine ELSE other_cosine

\* run_pipeline step 5: score_job(job)
ScoreJobCall ==
    /\ pc = "filtered"
    /\ kept
    /\ candidate_embedding' = GetCandidateEmbedding(candidate_embedding, profile)
    /\ rec' = ScoreJob(rec, CosineWith(candidate_embedding'[1]))
    /\ pc' = "scored"
    /\ UNCHANGED <<kept, cosine, profile, other_cosine>>
    /\ UNCHANGED exceptEmbed

\* score_job(job) again, on the record the first call returned
ScoreJobAgain ==
    /\ pc = "scored"
    /\ candidate_embedding' = GetCandidateEmbedding(candidate_embedding, profile)
    /\ rec' = ScoreJob(rec, CosineWith(candidate_embedding'[1]))
    /\ pc' = "rescored"
    /\ UNCHANGED <<kept, cosine, profile, other_cosine>>
    /\ UNCHANGED exceptEmbed

\* config/profile.yaml is edited while the process runs
EditProfile ==
    /\ pc \in {"filtered", "scored"}
    /\ profile = "shipped"
    /\ profile' = "edited"
    /\ UNCHANGED <<candidate_embedding, other_cosine>>
    /\ UNCHANGED jobVars
    /\ UNCHANGED exceptEmbed

NextScore ==
    \/ ScoreJobCall
    \/ ScoreJobAgain
    \/ EditProfile

SpecScore == InitScore /\ [][NextScore]_vars

-----------------------------------------------------------------------------
(* Ranker: scoring/engine.py rank_jobs *)

\* key=lambda j: j.score or 0
SortKey(j) == IF j.score = <<>> \/ j.score[1] = 0 THEN 0 ELSE j.score[1]

\* [j for j in jobs if j.score is not None and j.score >= min_score]
Qualified(jobs, threshold) ==
    SelectSeq(jobs, LAMBDA j : j.score # <<>> /\ j.score[1] >= threshold)

\* mutant: an equal-key record goes in front of the ones already placed
RECURSIVE InsertDescendingUnstable(_, _)
InsertDescendingUnstable(sorted, j) ==
    IF sorted = <<>> THEN <<j>>
    ELSE IF SortKey(Head(sorted)) > SortKey(j)
         THEN <<Head(sorted)>> \o InsertDescendingUnstable(Tail(sorted), j)
         ELSE <<j>> \o sorted

\* one insertion of the stable descending sort: j goes behind every record
\* whose key is at least its own
RECURSIVE InsertDescending(_, _)
InsertDescending(sorted, j) ==
    IF sorted = <<>> THEN <<j>>
    ELSE IF SortKey(Head(sorted)) >= SortKey(j)
         THEN <<Head(sorted)>> \o InsertDescending(Tail(sorted), j)
         ELSE <<j>> \o sorted

\* list.sort(key=..., reverse=True): stable, equal keys keep their order
RECURSIVE SortDescending(_, _)
SortDescending(jobs, sorted) ==
    IF jobs = <<>> THEN sorted
    ELSE SortDescending(Tail(jobs), InsertDescending(sorted, Head(jobs)))

\* list[:n] for any integer n
SliceTo(s, n) ==
    IF n >= 0 THEN SubSeq(s, 1, Min(n, Len(s)))
    ELSE SubSeq(s, 1, Max(0, Len(s) + n))

\* mutant: the threshold is not applied
RankJobsNoThreshold(jobs, threshold, n) ==
    SliceTo(SortDescending(Qualified(jobs, Pts(-1000)), <<>>), n)

\* rank_jobs(jobs, min_score, top_n)
RankJobs(jobs, threshold, n) ==
    SliceTo(SortDescending(Qualified(jobs, threshold), <<>>), n)

-----------------------------------------------------------------------------
(* Inputs of the ranker *)

MaxRank == 3

\* Job.score values: None, or a score in hundredths
RankScores == {<<>>, <<Pts(-5)>>, <<Pts(50)>>, <<Pts(60)>>, <<Pts(95)>>}

\* ten scored records
ScenarioScores ==
    << <<Pts(95)>>, <<Pts(40)>>, <<Pts(95)>>, <<Pts(10)>>, <<Pts(-5)>>,
       <<Pts(60)>>, <<Pts(60)>>, <<Pts(99)>>, <<Pts(0)>>, <<Pts(30)>> >>

\* records that differ in their position in the input
ScoredJobs(scores) ==
    [i \in DOMAIN scores |-> [job_id |-> i, score |-> scores[i]]]

RankInputs ==
    { ScoredJobs(scores) :
        scores \in {ScenarioScores}
                     \cup UNION { [1..n -> RankScores] : n \in 0..MaxRank } }

MinScores == {Pts(-10), Pts(50), Pts(60)}

TopNs == {-1, 0, 1, 2, 3, 20}

InitRank ==
    /\ IdleSearch
    /\ IdleGroq
    /\ IdleEmbed
    /\ IdleDedup
    /\ IdleJob
    /\ IdleFresh
    /\ IdleRun
    /\ IdleParse
    /\ filtered_jobs \in RankInputs
    /\ min_score \in MinScores
    /\ top_n \in TopNs
    /\ ranked_jobs = <<>>
    /\ rank_result = "none"

\* run_pipeline step 6: ranked_jobs = rank_jobs(filtered_jobs, min_score, top_n)
RankJobsCall ==
    /\ rank_result = "none"
    /\ ranked_jobs' = RankJobs(filtered_jobs, min_score, top_n)
    /\ rank_result' = "returned"
    /\ UNCHANGED <<filtered_jobs, min_score, top_n>>
    /\ UNCHANGED exceptRank

NextRank == RankJobsCall

SpecRank == InitRank /\ [][NextRank]_vars

-----------------------------------------------------------------------------
(* Dates: datetime values are whole hours since 0001-01-01 00:00 *)

IsLeap(y) == (y % 4 = 0 /\ y % 100 # 0) \/ y % 400 = 0

DaysInMonth(y, m) ==
    IF m = 2 THEN (IF IsLeap(y) THEN 29 ELSE 28)
    ELSE IF m \in {4, 6, 9, 11} THEN 30 ELSE 31

\* datetime(year, month, day) raises ValueError unless this holds
ValidDate(y, m, d) ==
    /\ y \in 1..9999
    /\ m \in 1..12
    /\ d \in 1..DaysInMonth(y, m)

RECURSIVE DaysBeforeMonth(_, _)
DaysBeforeMonth(y, m) ==
    IF m <= 1 THEN 0 ELSE DaysBeforeMonth(y, m - 1) + DaysInMonth(y, m - 1)

\* date.toordinal()
Ordinal(y, m, d) ==
    365 * (y - 1) + ((y - 1) \div 4) - ((y - 1) \div 100) + ((y - 1) \div 400)
        + DaysBeforeMonth(y, m) + d

\* datetime(year, month, day, hour)
DateTime(y, m, d, h) == (Ordinal(y, m, d) - 1) * 24 + h

\* datetime.now(), kept with its calendar fields
NowValue(t) == DateTime(t.year, t.month, t.day, t.hour)

\* timedelta.days: the floor of the difference in days
AgeDays(current, then) == (current - then) \div 24

-----------------------------------------------------------------------------
(* Freshness: utils/date_filter.py *)

MAX_JOB_AGE_DAYS == 45

Digits == <<"0", "1", "2", "3", "4", "5", "6", "7", "8", "9">>

\* \s of the re module
Whitespace == {" ", "\n", "\t"}

IsDigit(c) == \E k \in DOMAIN Digits : Digits[k] = c

DigitValue(c) == (CHOOSE k \in DOMAIN Digits : Digits[k] = c) - 1

\* the character at position i, "" past the end
At(text, i) == IF i \in DOMAIN text THEN text[i] ELSE ""

\* the literal lit stands at position i
LitAt(text, i, lit) ==
    /\ i >= 1
    /\ i + Len(lit) - 1 <= Len(text)
    /\ SubSeq(text, i, i + Len(lit) - 1) = lit

\* \s* and \d* from position i: the position after the longest run
RECURSIVE SkipSpace(_, _)
SkipSpace(text, i) ==
    IF At(text, i) \in Whitespace THEN SkipSpace(text, i + 1) ELSE i

RECURSIVE SkipDigits(_, _)
SkipDigits(text, i) ==
    IF IsDigit(At(text, i)) THEN SkipDigits(text, i + 1) ELSE i

\* int(digits)
RECURSIVE ToInt(_)
ToInt(digits) ==
    IF digits = <<>> THEN 0
    ELSE 10 * ToInt(SubSeq(digits, 1, Len(digits) - 1))
           + DigitValue(digits[Len(digits)])

\* str(n) for a four-digit n
YearText(n) ==
    << Digits[((n \div 1000) % 10) + 1], Digits[((n \div 100) % 10) + 1],
       Digits[((n \div 10) % 10) + 1], Digits[(n % 10) + 1] >>

MinOf(S) == CHOOSE x \in S : \A y \in S : x <= y

W_posted == <<"p", "o", "s", "t", "e", "d">>
W_ago == <<"a", "g", "o">>
W_day == <<"d", "a", "y">>
W_hour == <<"h", "o", "u", "r">>
W_week == <<"w", "e", "e", "k">>
W_month == <<"m", "o", "n", "t", "h">>

\* r'posted\s+(\d+)\s+<unit>s?\s+ago' matched at position i: <<group 1>>,
\* or <<>> when it does not match there
RelativeAt(text, i, unit) ==
    LET a == i + Len(W_posted)
        b == SkipSpace(text, a)
        c == SkipDigits(text, b)
        d == SkipSpace(text, c)
        e == d + Len(unit)
        f == IF At(text, e) = "s" THEN e + 1 ELSE e
        g == SkipSpace(text, f)
    IN  IF /\ LitAt(text, i, W_posted)
           /\ b > a /\ c > b /\ d > c
           /\ LitAt(text, d, unit)
           /\ g > f
           /\ LitAt(text, g, W_ago)
        THEN <<ToInt(SubSeq(text, b, c - 1))>>
        ELSE <<>>

\* re.search of that pattern: the leftmost match
RelativeSearch(text, unit) ==
    LET starts == {i \in DOMAIN text : RelativeAt(text, i, unit) # <<>>}
    IN  IF starts = {} THEN <<>> ELSE RelativeAt(text, MinOf(starts), unit)

MonthForms ==
    << [short |-> <<"j", "a", "n">>, long |-> <<"j", "a", "n", "u", "a", "r", "y">>],
       [short |-> <<"f", "e", "b">>, long |-> <<"f", "e", "b", "r", "u", "a", "r", "y">>],
       [short |-> <<"m", "a", "r">>, long |-> <<"m", "a", "r", "c", "h">>],
       [short |-> <<"a", "p", "r">>, long |-> <<"a", "p", "r", "i", "l">>],
       [short |-> <<"m", "a", "y">>, long |-> <<"m", "a", "y">>],
       [short |-> <<"j", "u", "n">>, long |-> <<"j", "u", "n", "e">>],
       [short |-> <<"j", "u", "l">>, long |-> <<"j", "u", "l", "y">>],
       [short |-> <<"a", "u", "g">>, long |-> <<"a", "u", "g", "u", "s", "t">>],
       [short |-> <<"s", "e", "p">>, long |-> <<"s", "e", "p", "t", "e", "m", "b", "e", "r">>],
       [short |-> <<"o", "c", "t">>, long |-> <<"o", "c", "t", "o", "b", "e", "r">>],
       [short |-> <<"n", "o", "v">>, long |-> <<"n", "o", "v", "e", "m", "b", "e", "r">>],
       [short |-> <<"d", "e", "c">>, long |-> <<"d", "e", "c", "e", "m", "b", "e", "r">>] >>

\* r',?\s*(\d{4})' after a day of k digits at position b: <<day, year>> or <<>>
DayYearAt(text, b, k) ==
    LET c == b + k
        d == IF At(text, c) = "," THEN c + 1 ELSE c
        e == SkipSpace(text, d)
    IN  IF /\ \A x \in b..(c - 1) : IsDigit(At(text, x))
           /\ \A x \in e..(e + 3) : IsDigit(At(text, x))
        THEN <<ToInt(SubSeq(text, b, c - 1)), ToInt(SubSeq(text, e, e + 3))>>
        ELSE <<>>

\* r'\s+(\d{1,2}),?\s*(\d{4})' after a month name that ends before position a:
\* two day digits are tried before one
MonthTailAt(text, a) ==
    LET b == SkipSpace(text, a)
    IN  IF b = a THEN <<>>
        ELSE IF DayYearAt(text, b, 2) # <<>> THEN DayYearAt(text, b, 2)
        ELSE DayYearAt(text, b, 1)

\* every month name of the pattern with its number
MonthNames ==
    { <<k, MonthForms[k].short>> : k \in DOMAIN MonthForms }
        \cup { <<k, MonthForms[k].long>> : k \in DOMAIN MonthForms }

\* the "Month Day, Year" pattern matched at position i: <<month, day, year>>,
\* or <<>> when it does not match there
MonthDateAt(text, i) ==
    LET good == { h \in MonthNames :
                    /\ LitAt(text, i, h[2])
                    /\ MonthTailAt(text, i + Len(h[2])) # <<>> }
    IN  IF good = {} THEN <<>>
        ELSE LET h == CHOOSE x \in good : TRUE
                 t == MonthTailAt(text, i + Len(h[2]))
             IN  <<h[1], t[1], t[2]>>

\* r'(202[4-7])-(\d{2})-(\d{2})' matched at position i: <<year, month, day>>
IsoDateAt(text, i) ==
    IF /\ LitAt(text, i, <<"2", "0", "2">>)
       /\ At(text, i + 3) \in {"4", "5", "6", "7"}
       /\ At(text, i + 4) = "-"
       /\ IsDigit(At(text, i + 5)) /\ IsDigit(At(text, i + 6))
       /\ At(text, i + 7) = "-"
       /\ IsDigit(At(text, i + 8)) /\ IsDigit(At(text, i + 9))
    THEN << ToInt(SubSeq(text, i, i + 3)), ToInt(SubSeq(text, i + 5, i + 6)),
            ToInt(SubSeq(text, i + 8, i + 9)) >>
    ELSE <<>>

\* now - timedelta(hours=h): OverflowError before year 1
Earlier(current, h) ==
    IF current - h < 0 THEN [raised |-> TRUE, value |-> <<>>]
    ELSE [raised |-> FALSE, value |-> <<current - h>>]

Found(value) == [raised |-> FALSE, value |-> value]

\* patterns 5 and 6 of detect_posted_date: explicit dates
ExplicitDate(text) ==
    LET mstarts == {i \in DOMAIN text : MonthDateAt(text, i) # <<>>}
        md == MonthDateAt(text, MinOf(mstarts))
        istarts == {i \in DOMAIN text : IsoDateAt(text, i) # <<>>}
        iso == IsoDateAt(text, MinOf(istarts))
    IN  IF /\ mstarts # {}
           /\ 2024 <= md[3] /\ md[3] <= 2027
           /\ 1 <= md[2] /\ md[2] <= 31
           /\ ValidDate(md[3], md[1], md[2])
        THEN <<DateTime(md[3], md[1], md[2], 0)>>
        ELSE IF istarts # {} /\ ValidDate(iso[1], iso[2], iso[3])
        THEN <<DateTime(iso[1], iso[2], iso[3], 0)>>
        ELSE <<>>

\* detect_posted_date(title, description, url) called at time t
DetectPostedDate(title, description, t) ==
    LET text == Lower(title \o <<" ">> \o description)
        current == NowValue(t)
        days == RelativeSearch(text, W_day)
        hours == RelativeSearch(text, W_hour)
        weeks == RelativeSearch(text, W_week)
        months == RelativeSearch(text, W_month)
    IN  IF days # <<>> THEN Earlier(current, 24 * days[1])
        ELSE IF hours # <<>> THEN Earlier(current, hours[1])
        ELSE IF weeks # <<>> THEN Earlier(current, 24 * 7 * weeks[1])
        ELSE IF months # <<>> THEN Earlier(current, 24 * (months[1] * 30))
        ELSE Found(ExplicitDate(text))

\* is_job_too_old(job_posted_date, max_age_days) called at time t
IsJobTooOld(job_posted_date, max_age_days, t) ==
    IF job_posted_date = <<>> THEN FALSE
    ELSE AgeDays(NowValue(t), job_posted_date[1]) > max_age_days

YearPrefixes ==
    { <<"s", "u", "m", "m", "e", "r">>,
      <<"f", "a", "l", "l">>,
      <<"s", "p", "r", "i", "n", "g">>,
      <<"w", "i", "n", "t", "e", "r">>,
      <<"i", "n", "t", "e", "r", "n">>,
      <<"c", "l", "a", "s", "s", " ", "o", "f">>,
      <<"c", "o", "h", "o", "r", "t">> }
YearSuffixes ==
    { <<"i", "n", "t", "e", "r", "n">> }

\* year_patterns of is_likely_stale for one old_year
YearPatterns(old_year) ==
    { prefix \o <<" ">> \o YearText(old_year) : prefix \in YearPrefixes }
        \cup { YearText(old_year) \o <<" ">> \o suffix : suffix \in YearSuffixes }

ClosedKeywords ==
    { <<"p", "o", "s", "i", "t", "i", "o", "n", " ", "f", "i", "l", "l", "e", "d">>,
      <<"n", "o", " ", "l", "o", "n", "g", "e", "r", " ", "a", "c", "c", "e", "p", "t", "i", "n", "g">>,
      <<"t", "h", "i", "s", " ", "p", "o", "s", "i", "t", "i", "o", "n", " ", "h", "a", "s", " ", "b", "e", "e", "n", " ", "f", "i", "l", "l", "e", "d">>,
      <<"j", "o", "b", " ", "c", "l", "o", "s", "e", "d">>,
      <<"a", "p", "p", "l", "i", "c", "a", "t", "i", "o", "n", " ", "c", "l", "o", "s", "e", "d">>,
      <<"p", "o", "s", "t", "i", "n", "g", " ", "e", "x", "p", "i", "r", "e", "d">>,
      <<"p", "o", "s", "i", "t", "i", "o", "n", " ", "c", "l", "o", "s", "e", "d">> }

\* is_likely_stale(title, description) called at time t
IsLikelyStale(title, description, t) ==
    LET text == Lower(title \o <<" ">> \o description)
    IN  \/ \E old_year \in 2020..(t.year - 2) :
              \E pattern \in YearPatterns(old_year) : Contains(text, pattern)
        \/ \E keyword \in ClosedKeywords : Contains(text, keyword)



-----------------------------------------------------------------------------
(* Inputs of the freshness functions *)

FreshTitles ==
    { <<"M", "L", " ", "I", "n", "t", "e", "r", "n">>,
      <<"C", "l", "a", "s", "s", " ", "o", "f", " ", "2", "0", "2", "4", " ", "M", "L">> }

FreshDescriptions ==
    { <<>>,
      <<"p", "o", "s", "t", "e", "d", " ", "4", "6", " ", "d", "a", "y", "s", " ", "a", "g", "o">>,
      <<"P", "o", "s", "t", "e", "d", " ", "4", "5", " ", "d", "a", "y", "s", " ", "a", "g", "o">>,
      <<"p", "o", "s", "t", "e", "d", " ", "1", " ", "d", "a", "y", " ", "a", "g", "o">>,
      <<"p", "o", "s", "t", "e", "d", " ", " ", "3", "0", " ", "h", "o", "u", "r", "s", " ", "a", "g", "o">>,
      <<"p", "o", "s", "t", "e", "d", " ", "1", "1", "0", "0", " ", "h", "o", "u", "r", "s", " ", "a", "g", "o">>,
      <<"p", "o", "s", "t", "e", "d", " ", "7", " ", "w", "e", "e", "k", "s", " ", "a", "g", "o">>,
      <<"p", "o", "s", "t", "e", "d", " ", "2", " ", "m", "o", "n", "t", "h", "s", " ", "a", "g", "o">>,
      <<"p", "o", "s", "t", "e", "d", " ", "8", "0", "0", "0", "0", "0", " ", "d", "a", "y", "s", " ", "a", "g", "o">>,
      <<"S", "e", "p", " ", "2", "0", ",", " ", "2", "0", "2", "6">>,
      <<"s", "e", "p", "t", "e", "m", "b", "e", "r", " ", "1", ",", "2", "0", "2", "6">>,
      <<"J", "a", "n", " ", "1", "2", "0", "2", "6">>,
      <<"F", "e", "b", " ", "3", "0", ",", " ", "2", "0", "2", "6", " ", "s", "e", "e", " ", "2", "0", "2", "6", "-", "1", "0", "-", "3", "0">>,
      <<"2", "0", "2", "6", "-", "0", "9", "-", "2", "0">>,
      <<"2", "0", "2", "6", "-", "1", "3", "-", "4", "0">>,
      <<"D", "e", "c", " ", "2", "5", ",", " ", "2", "0", "1", "9", " ", "2", "0", "2", "6", "-", "1", "0", "-", "0", "1">>,
      <<"m", "a", "y", "b", "e", " ", "5", ",", " ", "2", "0", "2", "6">>,
      <<"p", "o", "s", "t", "e", "d", " ", "o", "n", " ", "2", "0", "2", "4", "-", "0", "2", "-", "2", "9">>,
      <<"S", "u", "m", "m", "e", "r", " ", "2", "0", "2", "3", " ", "i", "n", "t", "e", "r", "n", "s", "h", "i", "p">>,
      <<"S", "u", "m", "m", "e", "r", " ", "2", "0", "1", "9", " ", "i", "n", "t", "e", "r", "n", "s", "h", "i", "p">>,
      <<"F", "a", "l", "l", " ", "2", "0", "2", "5", " ", "c", "o", "h", "o", "r", "t">>,
      <<"p", "o", "s", "i", "t", "i", "o", "n", " ", "f", "i", "l", "l", "e", "d">>,
      <<"p", "o", "s", "t", "e", "d", " ", "3", " ", "d", "a", "y", "s", " ", "a", "g", "o", " ", "j", "o", "b", " ", "c", "l", "o", "s", "e", "d">>,
      <<"2", "0", "2", "4", " ", "i", "n", "t", "e", "r", "n", " ", "p", "o", "s", "t", "e", "d", " ", "2", " ", "d", "a", "y", "s", " ", "a", "g", "o">> }

Nows ==
    { [year |-> 2026, month |-> 11, day |-> 4, hour |-> 15],
      [year |-> 2026, month |-> 1, day |-> 1, hour |-> 0] }

InitFresh ==
    /\ IdleSearch
    /\ IdleGroq
    /\ IdleEmbed
    /\ IdleDedup
    /\ IdleRank
    /\ IdleRun
    /\ IdleParse
    /\ \E title \in FreshTitles, description \in FreshDescriptions :
          rec = MakeJob(title, description, FALSE, <<>>, <<>>)
    /\ kept = FALSE
    /\ cosine = 0
    /\ pc = "scraped"
    /\ now \in Nows
    /\ posted_date = <<>>
    /\ too_old = FALSE
    /\ stale = FALSE

\* detect_posted_date(job.title, job.description, job.url)
DetectPostedDateCall ==
    /\ pc = "scraped"
    /\ LET found == DetectPostedDate(rec.title, rec.description, now)
       IN  /\ posted_date' = found.value
           /\ pc' = IF found.raised THEN "raised" ELSE "dated"
    /\ UNCHANGED <<rec, kept, cosine, now, too_old, stale>>
    /\ UNCHANGED exceptFresh

\* is_job_too_old(job.posted_date)
IsJobTooOldCall ==
    /\ pc = "dated"
    /\ too_old' = IsJobTooOld(posted_date, MAX_JOB_AGE_DAYS, now)
    /\ pc' = "aged"
    /\ UNCHANGED <<rec, kept, cosine, now, posted_date, stale>>
    /\ UNCHANGED exceptFresh

\* is_likely_stale(job.title, job.description)
IsLikelyStaleCall ==
    /\ pc = "aged"
    /\ stale' = IsLikelyStale(rec.title, rec.description, now)
    /\ pc' = "checked"
    /\ UNCHANGED <<rec, kept, cosine, now, posted_date, too_old>>
    /\ UNCHANGED exceptFresh

NextFresh ==
    \/ DetectPostedDateCall
    \/ IsJobTooOldCall
    \/ IsLikelyStaleCall

SpecFresh == InitFresh /\ [][NextFresh]_vars

-----------------------------------------------------------------------------
(* The run: main.py run_pipeline and main *)

MaxRun == 2

\* the fields class Job declares
JobFields ==
    {"title", "company", "url", "source", "location", "remote", "hybrid", "paid",
     "salary_min", "salary_max", "salary_currency", "description", "requirements",
     "extracted_flags", "company_enrichment", "score", "score_breakdown",
     "why_matched", "job_id"}

\* job.<name> = value on a pydantic BaseModel: ValueError for a name that is
\* not a field of the model
SetAttr(job, name, value) ==
    IF name \in JobFields
    THEN [raised |-> FALSE,
          job |-> [x \in (DOMAIN job) \cup {name} |->
                      IF x = name THEN value ELSE job[x]]]
    ELSE [raised |-> TRUE, job |-> job]

\* the characters of the strings the records of a run carry
Chars(str) ==
    CASE str = "" -> <<>>
      [] str = "AI Eng" -> <<"A", "I", " ", "E", "n", "g">>
      [] str = "AI Eng|Acme" -> <<"A", "I", " ", "E", "n", "g", "|", "A", "c", "m", "e">>
      [] str = "posted 46 days ago" -> <<"p", "o", "s", "t", "e", "d", " ", "4", "6", " ", "d", "a", "y", "s", " ", "a", "g", "o">>
      [] str = "Summer 2023 internship" -> <<"S", "u", "m", "m", "e", "r", " ", "2", "0", "2", "3", " ", "i", "n", "t", "e", "r", "n", "s", "h", "i", "p">>

\* one pass of the loop of step 2.5 behind detect_posted_date, which gave
\* found: the record raises, is dropped as stale, or is kept
PassWithDate(job, t, found) ==
    IF found.raised \/ SetAttr(job, "posted_date", found.value).raised
    THEN [verdict |-> "raised", job |-> job]
    ELSE IF IsJobTooOld(found.value, MAX_JOB_AGE_DAYS, t)
    THEN [verdict |-> "stale", job |-> job]
    ELSE IF IsLikelyStale(Chars(job.title), Chars(job.description), t)
    THEN [verdict |-> "stale", job |-> job]
    ELSE [verdict |-> "fresh",
          job |-> SetAttr(job, "posted_date", found.value).job]

\* one pass of the loop of step 2.5
FreshnessPass(job, t) ==
    IF SetAttr(job, "scraped_date", NowValue(t)).raised
    THEN [verdict |-> "raised", job |-> job]
    ELSE PassWithDate(SetAttr(job, "scraped_date", NowValue(t)).job, t,
                      DetectPostedDate(Chars(job.title), Chars(job.description), t))

\* fresh_jobs, from the passes that appended to it
FreshJobs(fresh) ==
    [k \in DOMAIN fresh |-> fresh[k].job]

\* the loop of step 2.5 from its passes: it ends at the first record that
\* raises, and otherwise collects the fresh records in order
FreshnessLoop(passes) ==
    IF \E i \in DOMAIN passes : passes[i].verdict = "raised"
    THEN [raised |-> TRUE, fresh_jobs |-> <<>>]
    ELSE [raised |-> FALSE,
          fresh_jobs |-> FreshJobs(SelectSeq(passes, LAMBDA pass : pass.verdict = "fresh"))]

\* step 2.5 of run_pipeline on the batch
FreshnessStage(jobs, t) ==
    FreshnessLoop([i \in DOMAIN jobs |-> FreshnessPass(jobs[i], t)])

\* mutant: the except branch of main prints nothing
MainOutcomeSilent(how, jobs) ==
    IF how = "raised" THEN [exit_code |-> 1, printed |-> {}]
    ELSE IF jobs # <<>> THEN [exit_code |-> 0, printed |-> {}]
    ELSE [exit_code |-> 1, printed |-> {}]

\* main(): sys.exit(0) with results, sys.exit(1) without, and the except branch
MainOutcome(how, jobs) ==
    IF how = "raised" THEN [exit_code |-> 1, printed |-> {"[FATAL ERROR]"}]
    ELSE IF jobs # <<>> THEN [exit_code |-> 0, printed |-> {}]
    ELSE [exit_code |-> 1, printed |-> {}]

\* the other fields of a record delivered to a run
RunVariants ==
    { [description |-> "", withId |-> FALSE],
      [description |-> "posted 46 days ago", withId |-> TRUE],
      [description |-> "Summer 2023 internship", withId |-> FALSE] }

RunJobs == { NewJob(t, v.description, v.withId) : t \in JobTriples, v \in RunVariants }

RunBatches == UNION { [1..n -> RunJobs] : n \in 0..MaxRun }

InitRun ==
    /\ IdleSearch
    /\ IdleGroq
    /\ IdleEmbed
    /\ file \in [kind : {"list"}, ids : SUBSET JobIds]
                \cup [kind : {"missing", "notjson"}, ids : {{}}]
    /\ dataDir \in IF file.kind = "missing" THEN {"dir", "blocked"} ELSE {"dir"}
    /\ all_jobs = <<>>
    /\ new_idx = <<>>
    /\ lastSave = "none"
    /\ prevSave = "none"
    /\ everInput = {}
    /\ anySaveFailed = FALSE
    /\ assigned = {}
    /\ op = "init"
    /\ tick = 0
    /\ IdleJob
    /\ IdleRank
    /\ IdleParse
    /\ now \in Nows
    /\ posted_date = <<>>
    /\ too_old = FALSE
    /\ stale = FALSE
    /\ run_pc = "start"
    /\ skip_dedup \in BOOLEAN
    /\ stages = <<>>
    /\ fresh_input = <<>>
    /\ printed = {}
    /\ ended_by = "none"
    /\ exit_code = -1

exceptRun == <<jobVars, rankVars, freshVars, parseVars, embedVars, groqVars, searchVars>>

\* step 1: the scrapers fill all_jobs; return [] when nothing was scraped
RunScrape ==
    /\ run_pc = "start"
    /\ all_jobs' \in RunBatches
    /\ IF all_jobs' = <<>>
       THEN /\ printed' = printed \cup {"[ERROR] No jobs scraped. Exiting."}
            /\ run_pc' = "returned"
       ELSE /\ printed' = printed
            /\ run_pc' = "scraped"
    /\ op' = "scrape"
    /\ UNCHANGED <<file, dataDir, new_idx, lastSave, prevSave, everInput,
                   anySaveFailed, assigned, tick>>
    /\ UNCHANGED <<skip_dedup, stages, fresh_input, ended_by, exit_code>>
    /\ UNCHANGED exceptRun

\* step 2: all_jobs = filter_new_jobs(all_jobs); return [] when none is new
RunDedup ==
    /\ run_pc = "scraped"
    /\ ~skip_dedup
    /\ \E io \in SaveOutcomes :
          LET r == FilterNewJobs(all_jobs, file, dataDir, io)
              returned == [k \in DOMAIN r.idx |-> r.jobs[r.idx[k]]]
          IN  /\ file' = r.file
              /\ dataDir' = r.dir
              /\ lastSave' = r.outcome
              /\ IF r.raised
                 THEN /\ all_jobs' = r.jobs
                      /\ new_idx' = <<>>
                      /\ printed' = printed
                      /\ run_pc' = "raised"
                 ELSE /\ all_jobs' = returned
                      /\ new_idx' = [k \in DOMAIN returned |-> k]
                      /\ IF returned = <<>>
                         THEN /\ printed' = printed \cup {"No new jobs found. Exiting."}
                              /\ run_pc' = "returned"
                         ELSE /\ printed' = printed
                              /\ run_pc' = "deduped"
    /\ stages' = Append(stages, "dedup")
    /\ op' = "filter"
    /\ UNCHANGED <<prevSave, everInput, anySaveFailed, assigned, tick>>
    /\ UNCHANGED <<skip_dedup, fresh_input, ended_by, exit_code>>
    /\ UNCHANGED exceptRun

\* mutant: step 2 filters and saves although skip_dedup is set
RunSkipDedupIgnored ==
    /\ run_pc = "scraped"
    /\ skip_dedup
    /\ \E r \in {FilterNewJobs(all_jobs, file, dataDir, "saved")} :
          /\ file' = r.file
          /\ dataDir' = r.dir
          /\ lastSave' = r.outcome
          /\ all_jobs' = r.jobs
    /\ printed' = printed
    /\ run_pc' = "deduped"
    /\ UNCHANGED <<new_idx, prevSave, everInput, anySaveFailed, assigned, op, tick>>
    /\ UNCHANGED <<skip_dedup, stages, fresh_input, ended_by, exit_code>>
    /\ UNCHANGED exceptRun

\* step 2 with --skip-dedup
RunSkipDedup ==
    /\ run_pc = "scraped"
    /\ skip_dedup
    /\ printed' = printed \cup {"[STEP 2] Skipping deduplication (--skip-dedup)"}
    /\ run_pc' = "deduped"
    /\ UNCHANGED dedupVars
    /\ UNCHANGED <<skip_dedup, stages, fresh_input, ended_by, exit_code>>
    /\ UNCHANGED exceptRun

\* step 2.5: the freshness filter; return [] when no record is fresh.  With
\* fresh records the run goes on to steps 2.7 to 7 (run_pc = "fresh").
RunFreshness ==
    /\ run_pc = "deduped"
    /\ stages' = Append(stages, "freshness")
    /\ fresh_input' = all_jobs
    /\ \E r \in {FreshnessStage(all_jobs, now)} :
           IF r.raised
           THEN /\ run_pc' = "raised"
                /\ UNCHANGED <<all_jobs, printed>>
           ELSE /\ all_jobs' = r.fresh_jobs
                /\ IF r.fresh_jobs = <<>>
                   THEN /\ printed' = printed \cup {"No fresh jobs found. Exiting."}
                        /\ run_pc' = "returned"
                   ELSE /\ printed' = printed
                        /\ run_pc' = "fresh"
    /\ op' = "freshness"
    /\ UNCHANGED <<file, dataDir, new_idx, lastSave, prevSave, everInput,
                   anySaveFailed, assigned, tick>>
    /\ UNCHANGED <<skip_dedup, ended_by, exit_code>>
    /\ UNCHANGED exceptRun

\* main(): the end of run_pipeline, by return or by exception
MainExit ==
    /\ run_pc \in {"returned", "raised"}
    /\ LET out == MainOutcome(run_pc, IF run_pc = "returned" THEN <<>> ELSE all_jobs)
       IN  /\ exit_code' = out.exit_code
           /\ printed' = printed \cup out.printed
    /\ ended_by' = run_pc
    /\ run_pc' = "exited"
    /\ UNCHANGED dedupVars
    /\ UNCHANGED <<skip_dedup, stages, fresh_input>>
    /\ UNCHANGED exceptRun

NextRun ==
    \/ RunScrape
    \/ RunDedup
    \/ RunSkipDedup
    \/ RunFreshness
    \/ MainExit

SpecRun == InitRun /\ [][NextRun]_vars
-----------------------------------------------------------------------------
(* Flag extraction: scrapers/llm_parser.py *)

MAX_RETRIES == 3

MaxParse == 2

\* what the service answers to one attempt: HTTP 429, another failure of the
\* request, or HTTP 200 with a content that is a JSON object, a JSON object
\* in a code fence, no JSON, or a JSON object with an unknown company_type
Replies == {"429", "error", "json", "fenced", "notjson", "badenum"}

\* _call_groq_api: retry on 429, raise on another failure or after
\* MAX_RETRIES attempts
RECURSIVE CallGroqApi(_, _)
CallGroqApi(replies, tried) ==
    IF tried >= MAX_RETRIES THEN [raised |-> TRUE, content |-> "none"]
    ELSE IF replies[tried + 1] = "429" THEN CallGroqApi(replies, tried + 1)
    ELSE IF replies[tried + 1] = "error" THEN [raised |-> TRUE, content |-> "none"]
    ELSE [raised |-> FALSE, content |-> replies[tried + 1]]

\* the flags the JSON object of a content holds
LlmData(content) ==
    IF content = "json"
    THEN [DefaultFlags EXCEPT !.has_llm = TRUE, !.has_rag = TRUE,
                              !.company_type = "startup",
                              !.experience_level = "junior",
                              !.years_required = <<2>>]
    ELSE [DefaultFlags EXCEPT !.experience_level = "senior", !.is_unpaid = TRUE]

\* extract_flags_with_llm behind _call_groq_api: None on every exception
FlagsOfResult(result) ==
    IF result.raised THEN <<>>
    ELSE IF result.content \in {"notjson", "badenum"} THEN <<>>
    ELSE <<LlmData(result.content)>>

\* extract_flags_with_llm(job)
ExtractFlagsWithLlm(job, replies) ==
    FlagsOfResult(CallGroqApi(replies, 0))

\* any(keyword in text for keyword in keywords)
AnyIn(text, keywords) == \E keyword \in keywords : Contains(text, keyword)

\* the keywords extract_flags_fallback looks for, by the flag or the value they set
FallbackKeywords ==
    [ has_llm |->
        { <<"l", "l", "m">>,
          <<"g", "p", "t">>,
          <<"l", "a", "r", "g", "e", " ", "l", "a", "n", "g", "u", "a", "g", "e", " ", "m", "o", "d", "e", "l">> },
      has_rag |->
        { <<"r", "a", "g">>,
          <<"r", "e", "t", "r", "i", "e", "v", "a", "l", " ", "a", "u", "g", "m", "e", "n", "t", "e", "d">>,
          <<"v", "e", "c", "t", "o", "r">> },
      has_langchain |->
        { <<"l", "a", "n", "g", "c", "h", "a", "i", "n">> },
      has_langgraph |->
        { <<"l", "a", "n", "g", "g", "r", "a", "p", "h">> },
      has_fastapi |->
        { <<"f", "a", "s", "t", "a", "p", "i">> },
      has_aws |->
        { <<"a", "w", "s">>,
          <<"l", "a", "m", "b", "d", "a">>,
          <<"s", "3">> },
      has_voice_ai |->
        { <<"v", "o", "i", "c", "e">>,
          <<"s", "p", "e", "e", "c", "h">>,
          <<"t", "t", "s">>,
          <<"s", "t", "t">> },
      has_backend |->
        { <<"b", "a", "c", "k", "e", "n", "d">>,
          <<"a", "p", "i">> },
      is_ai_native |->
        { <<"a", "i", " ", "c", "o", "m", "p", "a", "n", "y">>,
          <<"a", "i", "-", "f", "i", "r", "s", "t">> },
      requires_phd |->
        { <<"p", "h", "d", " ", "r", "e", "q", "u", "i", "r", "e", "d">>,
          <<"p", "h", "d", " ", "p", "r", "e", "f", "e", "r", "r", "e", "d">> },
      requires_publications |->
        { <<"p", "u", "b", "l", "i", "c", "a", "t", "i", "o", "n", "s", " ", "r", "e", "q", "u", "i", "r", "e", "d">> },
      research_heavy |->
        { <<"r", "e", "s", "e", "a", "r", "c", "h", " ", "s", "c", "i", "e", "n", "t", "i", "s", "t">>,
          <<"n", "o", "v", "e", "l", " ", "a", "l", "g", "o", "r", "i", "t", "h", "m", "s">> },
      is_unpaid |->
        { <<"u", "n", "p", "a", "i", "d">>,
          <<"v", "o", "l", "u", "n", "t", "e", "e", "r">> },
      is_onsite_only |->
        { <<"o", "n", "-", "s", "i", "t", "e", " ", "o", "n", "l", "y">>,
          <<"n", "o", " ", "r", "e", "m", "o", "t", "e">> },
      apm |->
        { <<"a", "s", "s", "o", "c", "i", "a", "t", "e", " ", "p", "r", "o", "d", "u", "c", "t", " ", "m", "a", "n", "a", "g", "e", "r">>,
          <<"a", "p", "m">>,
          <<"j", "u", "n", "i", "o", "r", " ", "p", "r", "o", "d", "u", "c", "t", " ", "m", "a", "n", "a", "g", "e", "r">> },
      junior |->
        { <<"j", "u", "n", "i", "o", "r">>,
          <<"0", "-", "2", " ", "y", "e", "a", "r", "s">>,
          <<"e", "n", "t", "r", "y", " ", "l", "e", "v", "e", "l">>,
          <<"e", "n", "t", "r", "y", "-", "l", "e", "v", "e", "l">>,
          <<"n", "e", "w", " ", "g", "r", "a", "d">> },
      senior |->
        { <<"s", "e", "n", "i", "o", "r">>,
          <<"s", "r", ".">>,
          <<"s", "t", "a", "f", "f">>,
          <<"p", "r", "i", "n", "c", "i", "p", "a", "l">>,
          <<"l", "e", "a", "d">>,
          <<"5", "+", " ", "y", "e", "a", "r", "s">>,
          <<"5", "-", "7", " ", "y", "e", "a", "r", "s">>,
          <<"6", "+", " ", "y", "e", "a", "r", "s">>,
          <<"7", "+", " ", "y", "e", "a", "r", "s">> },
      mid |->
        { <<"3", "+", " ", "y", "e", "a", "r", "s">>,
          <<"3", "-", "5", " ", "y", "e", "a", "r", "s">>,
          <<"4", "+", " ", "y", "e", "a", "r", "s">>,
          <<"2", "-", "4", " ", "y", "e", "a", "r", "s">>,
          <<"m", "i", "d", "-", "l", "e", "v", "e", "l">>,
          <<"m", "i", "d", " ", "l", "e", "v", "e", "l">> },
      startup |->
        { <<"s", "t", "a", "r", "t", "u", "p">>,
          <<"s", "e", "e", "d">>,
          <<"s", "e", "r", "i", "e", "s", " ", "a">> },
      enterprise |->
        { <<"e", "n", "t", "e", "r", "p", "r", "i", "s", "e">>,
          <<"f", "o", "r", "t", "u", "n", "e", " ", "5", "0", "0">> },
      consulting |->
        { <<"c", "o", "n", "s", "u", "l", "t", "i", "n", "g">>,
          <<"s", "e", "r", "v", "i", "c", "e", "s">> } ]

\* the experience level extract_flags_fallback detects
FallbackExperience(text, title_lower) ==
    IF AnyIn(title_lower, FallbackKeywords.apm) THEN "junior"
    ELSE IF Contains(text, <<"i", "n", "t", "e", "r", "n">>) THEN "intern"
    ELSE IF AnyIn(text, FallbackKeywords.junior) THEN "junior"
    ELSE IF AnyIn(text, FallbackKeywords.senior) THEN "senior"
    ELSE IF AnyIn(text, FallbackKeywords.mid) THEN "mid"
    ELSE "unknown"

\* the company type extract_flags_fallback detects
FallbackCompany(text) ==
    IF AnyIn(text, FallbackKeywords.startup) THEN "startup"
    ELSE IF AnyIn(text, FallbackKeywords.enterprise) THEN "enterprise"
    ELSE IF AnyIn(text, FallbackKeywords.consulting) THEN "consulting"
    ELSE "unknown"

FallbackFlags(text, title_lower) ==
    [has_llm |-> AnyIn(text, FallbackKeywords.has_llm),
     has_rag |-> AnyIn(text, FallbackKeywords.has_rag),
     has_langchain |-> AnyIn(text, FallbackKeywords.has_langchain),
     has_langgraph |-> AnyIn(text, FallbackKeywords.has_langgraph),
     has_fastapi |-> AnyIn(text, FallbackKeywords.has_fastapi),
     has_aws |-> AnyIn(text, FallbackKeywords.has_aws),
     has_voice_ai |-> AnyIn(text, FallbackKeywords.has_voice_ai),
     has_backend |-> AnyIn(text, FallbackKeywords.has_backend),
     is_ai_native |-> AnyIn(text, FallbackKeywords.is_ai_native),
     requires_phd |-> AnyIn(text, FallbackKeywords.requires_phd),
     requires_publications |-> AnyIn(text, FallbackKeywords.requires_publications),
     research_heavy |-> AnyIn(text, FallbackKeywords.research_heavy),
     is_unpaid |-> AnyIn(text, FallbackKeywords.is_unpaid),
     is_onsite_only |-> AnyIn(text, FallbackKeywords.is_onsite_only),
     has_agents |-> Contains(text, <<"a", "g", "e", "n", "t">>) /\ Contains(text, <<"a", "i">>),
     cv_heavy |-> Contains(text, <<"c", "o", "m", "p", "u", "t", "e", "r", " ", "v", "i", "s", "i", "o", "n">>) /\ Contains(text, <<"p", "r", "i", "m", "a", "r", "y">>),
     years_required |-> <<>>,
     experience_level |-> FallbackExperience(text, title_lower),
     company_type |-> FallbackCompany(text)]

\* extract_flags_fallback(job)
ExtractFlagsFallback(job) ==
    FallbackFlags(Lower(job.title \o <<" ">> \o job.description), Lower(job.title))

\* mutant: the failure of the LLM is passed on as None
ParseJobWithLlmNoFallback(job, use_fallback, flags) ==
    [job |-> [job EXCEPT !.extracted_flags = flags], used_fallback |-> FALSE]

\* parse_job_with_llm(job, use_fallback), where extract_flags_with_llm(job)
\* gave flags
ParseJobWithLlm(job, use_fallback, flags) ==
    IF flags = <<>> /\ use_fallback
    THEN [job |-> [job EXCEPT !.extracted_flags = <<ExtractFlagsFallback(job)>>],
          used_fallback |-> TRUE]
    ELSE [job |-> [job EXCEPT !.extracted_flags = flags], used_fallback |-> FALSE]

(* Inputs of the extraction *)

ParseTitles ==
    { <<"S", "e", "n", "i", "o", "r", " ", "A", "I", " ", "E", "n", "g", "i", "n", "e", "e", "r">>,
      <<"M", "L", " ", "I", "n", "t", "e", "r", "n">> }

ParseDescriptions ==
    { <<>>,
      <<"B", "u", "i", "l", "d", " ", "R", "A", "G", " ", "a", "g", "e", "n", "t", "s", " ", "o", "n", " ", "A", "W", "S", " ", "a", "t", " ", "a", " ", "s", "e", "e", "d", " ", "s", "t", "a", "r", "t", "u", "p">>,
      <<"U", "n", "p", "a", "i", "d", ".", " ", "P", "h", "D", " ", "r", "e", "q", "u", "i", "r", "e", "d", ".", " ", "3", "+", " ", "y", "e", "a", "r", "s", " ", "o", "f", " ", "c", "o", "n", "s", "u", "l", "t", "i", "n", "g">> }

ParseJobs ==
    { MakeJob(title, description, FALSE, <<>>, <<>>) :
        title \in ParseTitles, description \in ParseDescriptions }

ParseBatches == UNION { [1..n -> ParseJobs] : n \in 1..MaxParse }

InitParse ==
    /\ IdleSearch
    /\ IdleGroq
    /\ IdleEmbed
    /\ IdleDedup
    /\ IdleJob
    /\ IdleRank
    /\ IdleFresh
    /\ IdleRun
    /\ llm_jobs \in ParseBatches
    /\ llm_none = <<>>
    /\ fallback_asked = <<>>
    /\ fallback_used = <<>>

\* one pass of the loop over the batch: job, used_fallback =
\* parse_job_with_llm(job, use_fallback), with the next record
ParseJobWithLlmCall ==
    /\ Len(fallback_used) < Len(llm_jobs)
    /\ \E use_fallback \in BOOLEAN :
          \E flags \in { ExtractFlagsWithLlm(llm_jobs[Len(fallback_used) + 1], replies) :
                            replies \in [1..MAX_RETRIES -> Replies] } :
              \E r \in {ParseJobWithLlm(llm_jobs[Len(fallback_used) + 1],
                                        use_fallback, flags)} :
                  /\ llm_jobs' = [llm_jobs EXCEPT ![Len(fallback_used) + 1] = r.job]
                  /\ llm_none' = Append(llm_none, flags = <<>>)
                  /\ fallback_asked' = Append(fallback_asked, use_fallback)
                  /\ fallback_used' = Append(fallback_used, r.used_fallback)
    /\ UNCHANGED exceptParse

NextParse == ParseJobWithLlmCall

SpecParse == InitParse /\ [][NextParse]_vars

-----------------------------------------------------------------------------
(* The Groq call, step by step: scrapers/llm_parser.py _call_groq_api.     *)
(* _rate_limit() before each request sleeps at most RATE_LIMIT_DELAY and   *)
(* writes only _last_call_time.                                            *)

RETRY_BASE_DELAY == 10

\* mutant: one attempt more than MAX_RETRIES
RetryRangeLong == 0..MAX_RETRIES

\* range(MAX_RETRIES)
RetryRange == 0..(MAX_RETRIES - 1)

RECURSIVE Pow2(_)
Pow2(n) == IF n = 0 THEN 1 ELSE 2 * Pow2(n - 1)

\* response.headers.get("retry-after"): absent or empty, a number of seconds,
\* a text float() rejects, a text float() reads as inf or nan
RetryHeaders ==
    {[kind |-> "none", seconds |-> 0],
     [kind |-> "number", seconds |-> 5],
     [kind |-> "number", seconds |-> 60],
     [kind |-> "text", seconds |-> 0],
     [kind |-> "inf", seconds |-> 0]}

\* the retry_after of a 429 answer, <<>> where time.sleep(retry_after) raises
\* (OverflowError for inf, ValueError for nan)
RetryAfter(n, header) ==
    LET backoff == RETRY_BASE_DELAY * Pow2(n)
    IN  IF header.kind = "number"
        THEN <<IF header.seconds > backoff THEN header.seconds ELSE backoff>>
        ELSE IF header.kind = "inf" THEN <<>>
        ELSE <<backoff>>

\* _rotate_key()
RotateKey(index, n) == IF n > 1 THEN (index + 1) % n ELSE index

\* answers that end the call with an exception: a status raise_for_status
\* rejects, a transport error or timeout, a body response.json() rejects
FailingAnswers == {"500", "timeout", "badbody"}

Answer(status, header) == [status |-> status, header |-> header]

NoHeader == [kind |-> "none", seconds |-> 0]

InitGroq ==
    /\ IdleSearch
    /\ IdleDedup
    /\ IdleJob
    /\ IdleRank
    /\ IdleFresh
    /\ IdleRun
    /\ IdleParse
    /\ IdleEmbed
    /\ groq_pc = "loop"
    /\ attempt = 0
    /\ answered = <<>>
    /\ waited = 0
    /\ n_keys \in 0..2
    /\ current_key_index \in {i \in 0..1 : i = 0 \/ i < n_keys}

\* _get_current_key() with no key in the environment: ValueError
GroqNoKey ==
    /\ groq_pc = "loop"
    /\ attempt \in RetryRange
    /\ n_keys = 0
    /\ groq_pc' = "raised"
    /\ UNCHANGED <<attempt, answered, waited, n_keys, current_key_index>>
    /\ UNCHANGED exceptGroq

\* an attempt answered 200 with a JSON body: return response.json()
GroqReturn ==
    /\ groq_pc = "loop"
    /\ attempt \in RetryRange
    /\ n_keys > 0
    /\ answered' = Append(answered, Answer("200", NoHeader))
    /\ groq_pc' = "returned"
    /\ UNCHANGED <<attempt, waited, n_keys, current_key_index>>
    /\ UNCHANGED exceptGroq

\* an attempt that ends in an exception other than a 429: raise
GroqError ==
    /\ groq_pc = "loop"
    /\ attempt \in RetryRange
    /\ n_keys > 0
    /\ \E status \in FailingAnswers :
           answered' = Append(answered, Answer(status, NoHeader))
    /\ groq_pc' = "raised"
    /\ UNCHANGED <<attempt, waited, n_keys, current_key_index>>
    /\ UNCHANGED exceptGroq

\* an attempt answered 429: rotate the key, sleep, continue
GroqRateLimited ==
    /\ groq_pc = "loop"
    /\ attempt \in RetryRange
    /\ n_keys > 0
    /\ \E header \in RetryHeaders :
         /\ answered' = Append(answered, Answer("429", header))
         /\ IF RetryAfter(attempt, header) = <<>>
            THEN /\ groq_pc' = "raised"
                 /\ UNCHANGED <<attempt, waited>>
            ELSE /\ waited' = waited + RetryAfter(attempt, header)[1]
                 /\ attempt' = attempt + 1
                 /\ UNCHANGED groq_pc
    /\ current_key_index' = RotateKey(current_key_index, n_keys)
    /\ UNCHANGED n_keys
    /\ UNCHANGED exceptGroq

\* the loop is over: raise Exception("Rate limited after ... retries")
GroqExhausted ==
    /\ groq_pc = "loop"
    /\ attempt \notin RetryRange
    /\ groq_pc' = "raised"
    /\ UNCHANGED <<attempt, answered, waited, n_keys, current_key_index>>
    /\ UNCHANGED exceptGroq

NextGroq ==
    \/ GroqNoKey
    \/ GroqReturn
    \/ GroqError
    \/ GroqRateLimited
    \/ GroqExhausted

\* the thread that made the call keeps running it: every request is answered
\* or times out after 30 s, every sleep is finite
SpecGroq == InitGroq /\ [][NextGroq]_vars /\ WF_vars(NextGroq)

-----------------------------------------------------------------------------
(* Company search: utils/web_search.py.  Times are tenths of a second.     *)

MaxSearch == 2

\* _rate_limit_delay = 1.5
rate_limit_delay == 15

\* str.strip(): leading and trailing whitespace removed
RECURSIVE LStrip(_)
LStrip(text) ==
    IF text # <<>> /\ Head(text) \in Whitespace THEN LStrip(Tail(text)) ELSE text

RECURSIVE RStrip(_)
RStrip(text) ==
    IF text # <<>> /\ text[Len(text)] \in Whitespace
    THEN RStrip(SubSeq(text, 1, Len(text) - 1))
    ELSE text

Strip(text) == LStrip(RStrip(text))

\* cache_key = company_name.lower().strip()
CacheKey(company_name) == Strip(Lower(company_name))

CompanyNames ==
    {<<"A", "c", "m", "e">>, <<" ", "a", "C", "M", "E", "\n">>,
     <<"A", " ", "c", "m", "e">>}

CacheKeys == {CacheKey(name) : name \in CompanyNames}

\* what the company search finds: nothing, or a size, an AI indicator and a round
SearchFindings ==
    {EmptyEnrichment,
     [employee_count |-> <<50>>, is_ai_company |-> TRUE,
      funding_stage |-> <<"Seed">>, glassdoor_rating |-> <<>>]}

\* the enrichment with the tech_stack the second search filled
WithTechStack(enrichment, tech_stack) ==
    [employee_count |-> enrichment.employee_count,
     is_ai_company |-> enrichment.is_ai_company,
     funding_stage |-> enrichment.funding_stage,
     glassdoor_rating |-> enrichment.glassdoor_rating,
     tech_stack |-> tech_stack]

\* CompanyEnrichment() as search_company_info returns it
EmptyResult == WithTechStack(EmptyEnrichment, <<>>)

\* the first client.search: raises, or answers with what it finds
MainOutcomes == {[raised |-> TRUE, found |-> EmptyEnrichment]}
                  \cup {[raised |-> FALSE, found |-> e] : e \in SearchFindings}

\* the second client.search: raises, or answers with the keywords it finds
TechOutcomes == {[raised |-> TRUE, tech_stack |-> <<>>],
                 [raised |-> FALSE, tech_stack |-> <<"python", "aws">>]}

\* how long a client.search takes, and how long the caller waits between calls
Latencies == {5, 20}
Gaps == {0, 20}

\* time.time() after _rate_limit() entered at time t
RateLimit(t, last) ==
    IF t - last < rate_limit_delay THEN last + rate_limit_delay ELSE t

\* mutant: the result is not stored
CacheNothing(cache, key, enrichment) == cache

\* _company_cache[cache_key] = enrichment
CacheResult(cache, key, enrichment) == [cache EXCEPT ![key] = <<enrichment>>]

\* the body of search_company_info after the cache miss, entered at time t
\* after _rate_limit(): the requests made, the time at the return, the result
FetchCompanyInfo(t, main, tech, l1, l2) ==
    IF ~tavily_available
    THEN [requests |-> <<>>, clock |-> t, result |-> EmptyResult]
    ELSE IF main.raised
    THEN [requests |-> <<t>>, clock |-> t + l1, result |-> EmptyResult]
    ELSE [requests |-> <<t, t + l1>>, clock |-> t + l1 + l2,
          result |-> WithTechStack(main.found,
                                   IF tech.raised THEN <<>> ELSE tech.tech_stack)]

InitSearch ==
    /\ IdleDedup
    /\ IdleJob
    /\ IdleRank
    /\ IdleFresh
    /\ IdleRun
    /\ IdleParse
    /\ IdleEmbed
    /\ IdleGroq
    /\ company_cache = [key \in CacheKeys |-> <<>>]
    /\ last_api_call = 0
    /\ api_calls_made = 0
    /\ clock = 100
    /\ requests = <<>>
    /\ tavily_available \in BOOLEAN
    /\ looked = <<>>
    /\ search_returned = <<>>
    /\ search_calls = 0

\* search_company_info(company_name), a cached name
SearchCached(company_name, t) ==
    /\ company_cache[CacheKey(company_name)] # <<>>
    /\ search_returned' = company_cache[CacheKey(company_name)]
    /\ clock' = t
    /\ UNCHANGED <<company_cache, last_api_call, api_calls_made, requests>>

\* search_company_info(company_name), a name that is not cached
SearchFetched(company_name, t, fetched) ==
    /\ company_cache[CacheKey(company_name)] = <<>>
    /\ last_api_call' = t
    /\ api_calls_made' = api_calls_made + 1
    /\ requests' = requests \o fetched.requests
    /\ clock' = fetched.clock
    /\ company_cache' = CacheResult(company_cache, CacheKey(company_name), fetched.result)
    /\ search_returned' = <<fetched.result>>

\* search_company_info(company_name)
SearchCompanyInfo ==
    /\ search_calls < MaxSearch
    /\ search_calls' = search_calls + 1
    /\ \E company_name \in CompanyNames, gap \in Gaps :
         /\ \/ SearchCached(company_name, clock + gap)
            \/ \E main \in MainOutcomes, tech \in TechOutcomes, l1, l2 \in Latencies,
                  t \in {RateLimit(clock + gap, last_api_call)} :
                 SearchFetched(company_name, t, FetchCompanyInfo(t, main, tech, l1, l2))
         /\ looked' = Append(looked, [name |-> company_name,
                                      result |-> search_returned'[1]])
    /\ UNCHANGED tavily_available
    /\ UNCHANGED exceptSearch

\* clear_cache()
SearchClearCache ==
    /\ search_calls > 0
    /\ company_cache' = [key \in CacheKeys |-> <<>>]
    /\ api_calls_made' = 0
    /\ looked' = <<>>
    /\ UNCHANGED <<last_api_call, clock, requests, tavily_available,
                   search_returned, search_calls>>
    /\ UNCHANGED exceptSearch

NextSearch ==
    \/ SearchCompanyInfo
    \/ SearchClearCache

SpecSearch == InitSearch /\ [][NextSearch]_vars

-----------------------------------------------------------------------------
(* Actions of the deduplication store *)

InitDedup ==
    /\ file \in [kind : {"list"}, ids : SUBSET JobIds]
                \cup [kind : {"str"}, ids : {StrChars}]
                \cup [kind : {"missing", "notjson", "notobject"}, ids : {{}}]
    /\ dataDir \in IF file.kind = "missing" THEN {"dir", "none", "blocked"}
                   ELSE {"dir"}
    /\ all_jobs = <<>>
    /\ new_idx = <<>>
    /\ lastSave = "none"
    /\ prevSave = "none"
    /\ everInput = {}
    /\ anySaveFailed = FALSE
    /\ assigned = {}
    /\ op = "init"
    /\ tick = 0

\* a scraper appends a record to the batch
Scrape ==
    /\ Len(all_jobs) < MaxBatch
    /\ lastSave = "none"
    /\ \E t \in JobTriples, v \in JobVariants :
          LET job == NewJob(t, v.description, v.withId)
          IN  /\ all_jobs' = Append(all_jobs, job)
              /\ assigned' = assigned \cup Pairs(<<job>>)
    /\ op' = "scrape"
    /\ UNCHANGED <<file, dataDir, new_idx, lastSave, prevSave, everInput,
                   anySaveFailed, tick>>
    /\ UNCHANGED exceptDedup

\* run_pipeline step 2: filter_new_jobs(all_jobs), reached with a non-empty batch
FilterNewJobsCall ==
    /\ all_jobs # <<>>
    /\ \E io \in SaveOutcomes :
          LET r == FilterNewJobs(all_jobs, file, dataDir, io)
          IN  /\ all_jobs' = r.jobs
              /\ file' = r.file
              /\ dataDir' = r.dir
              /\ new_idx' = r.idx
              /\ lastSave' = r.outcome
              /\ anySaveFailed' = (anySaveFailed \/ r.outcome # "saved")
              /\ everInput' = everInput \cup IdsOf(r.jobs)
              /\ assigned' = assigned \cup Pairs(r.jobs)
    /\ prevSave' = lastSave
    /\ op' = "filter"
    /\ tick' = 1 - tick
    /\ UNCHANGED exceptDedup

\* clear_cache(): unlink the file if it exists
ClearCache ==
    /\ file' = MissingFile
    /\ everInput' = {}
    /\ anySaveFailed' = FALSE
    /\ lastSave' = "none"
    /\ prevSave' = "none"
    /\ op' = "clear"
    /\ UNCHANGED <<dataDir, all_jobs, new_idx, assigned, tick>>
    /\ UNCHANGED exceptDedup

\* the process ends; the next run starts with an empty batch
NewRun ==
    /\ all_jobs' = <<>>
    /\ new_idx' = <<>>
    /\ lastSave' = "none"
    /\ prevSave' = "none"
    /\ op' = "newrun"
    /\ UNCHANGED <<file, dataDir, everInput, anySaveFailed, assigned, tick>>
    /\ UNCHANGED exceptDedup

Init == InitDedup /\ IdleJob /\ IdleRank /\ IdleFresh /\ IdleRun /\ IdleParse /\ IdleEmbed /\ IdleGroq /\ IdleSearch

Next ==
    \/ Scrape
    \/ FilterNewJobsCall
    \/ ClearCache
    \/ NewRun

Spec == Init /\ [][Next]_vars

-----------------------------------------------------------------------------
(* Claims about the deduplication store *)

FilterStep == tick' # tick

SameTriple(i, j) == Triple(all_jobs[i]) = Triple(all_jobs[j])

\* positions of the records that are the first of their identity in the batch
FirstOccurrences(jobs) ==
    { i \in DOMAIN jobs :
        \A j \in 1..(i - 1) : jobs[j].job_id # jobs[i].job_id }

C4_SaveFailureTolerated ==
    [][(FilterStep /\ lastSave' # "saved") =>
          /\ lastSave' # "mkdir_raised"
          /\ new_idx' = FilterLoop(all_jobs, 1, LoadSeenJobs(file), <<>>).idx]_vars

\* C5: with a missing or malformed store file load_seen_jobs returns the empty
\* set, filter_new_jobs returns every record that is the first of its identity
\* and raises nothing.
C5_MalformedStoreIsEmpty ==
    [][(FilterStep /\ file.kind # "list") =>
          /\ LoadSeenJobs(file) = {}
          /\ lastSave' # "mkdir_raised"
          /\ Range(new_idx') = FirstOccurrences(all_jobs')]_vars

\* C6: of several records of one batch with the same (url, title, company),
\* only the first can be returned; the later ones are filtered out.
C6_FirstOccurrenceOnly ==
    Returned =>
        \A i, j \in DOMAIN all_jobs :
            (i < j /\ SameTriple(i, j)) => j \notin Range(new_idx)

C6_Witness ==
    /\ Returned
    /\ \E i, j \in DOMAIN all_jobs :
          i < j /\ SameTriple(i, j) /\ i \in Range(new_idx)

\* C7: records with the same (url, title, company) always carry the same
\* identity, in every call and run, whatever the store and their other fields.
C7_IdentityDeterministic ==
    \A p, q \in assigned : p[1] = q[1] => p[2] = q[2]

C7_Witness ==
    /\ op = "filter"
    /\ file.kind = "list" /\ file.ids # {}
    /\ \E i, j \in DOMAIN all_jobs :
          /\ SameTriple(i, j)
          /\ all_jobs[i].description # all_jobs[j].description
          /\ all_jobs[i].job_id = all_jobs[j].job_id
          /\ all_jobs[i].job_id # None

\* C8: two records share an identity if and only if they have the same
\* (url, title, company).
C8_IdentityIffTriple ==
    \A p, q \in assigned : (p[2] = q[2]) <=> (p[1] = q[1])

-----------------------------------------------------------------------------
(* Claims about the hard filter *)

\* C9: apply_hard_filters raises nothing and keeps a record iff its flags are
\* absent, or it is not unpaid, requires no PhD, is neither senior nor lead and
\* has an AI keyword in title+description or one of the five AI flags; an unpaid
\* record and a senior-level record are discarded whatever else they hold.
C9_HardFilterKeepsIff ==
    pc = "filtered" =>
        /\ kept \in BOOLEAN
        /\ kept <=>
             \/ rec.extracted_flags = <<>>
             \/ LET flags == rec.extracted_flags[1]
                IN  /\ ~flags.is_unpaid
                    /\ ~flags.requires_phd
                    /\ flags.experience_level \notin {"senior", "lead"}
                    /\ \/ \E keyword \in AiKeywords :
                             Contains(Lower(rec.title \o <<" ">> \o rec.description),
                                      keyword)
                       \/ \E a \in {"has_llm", "has_rag", "has_agents",
                                    "has_langchain", "has_langgraph"} : flags[a]
        /\ (rec.extracted_flags # <<>> /\ rec.extracted_flags[1].is_unpaid) => ~kept
        /\ (rec.extracted_flags # <<>>
              /\ rec.extracted_flags[1].experience_level = "senior") => ~kept

C9_Witness ==
    /\ pc = "filtered"
    /\ ~kept
    /\ rec.extracted_flags # <<>>
    /\ rec.extracted_flags[1].experience_level = "senior"
    /\ ~rec.extracted_flags[1].is_unpaid
    /\ rec.extracted_flags[1].has_llm
    /\ rec.title = T_MLEngineer

-----------------------------------------------------------------------------
(* Claims about the scorer *)

Breakdown == rec.score_breakdown[1]

\* C10: score_job gives similarity in [0, 40], skill_match in [0, 25],
\* experience_fit in [0, 15], company_signal in [0, 10], penalties in [-10, 10]
\* and a score equal to the sum of the five components.
C10_ScoreBounds ==
    pc = "scored" =>
        /\ rec.score_breakdown # <<>> /\ rec.score # <<>>
        /\ 0 <= Breakdown.similarity /\ Breakdown.similarity <= Pts(40)
        /\ 0 <= Breakdown.skill_match /\ Breakdown.skill_match <= Pts(25)
        /\ 0 <= Breakdown.experience_fit /\ Breakdown.experience_fit <= Pts(15)
        /\ 0 <= Breakdown.company_signal /\ Breakdown.company_signal <= Pts(10)
        /\ Pts(-10) <= Breakdown.penalties /\ Breakdown.penalties <= Pts(10)
        /\ rec.score[1] = Breakdown.similarity + Breakdown.skill_match
                            + Breakdown.experience_fit + Breakdown.company_signal
                            + Breakdown.penalties

C10_Witness ==
    /\ pc = "scored"
    /\ rec.extracted_flags = <<BestFlags>>
    /\ rec.remote
    /\ cosine = 10000
    /\ Breakdown.skill_match = Pts(25)
    /\ rec.score[1] = Pts(93)

\* score_job has returned, once or twice
Scored == pc \in {"scored", "rescored"}

\* C21: score_job called again on the record it returned, title, description,
\* remote flag, flags and enrichment untouched, leaves score, score_breakdown
\* and why_matched as the first call set them, also when the profile file was
\* edited in between: the cached candidate embedding is used.
C21_RescoreIdentical ==
    [][(pc = "scored" /\ pc' = "rescored") =>
          /\ rec'.score = rec.score
          /\ rec'.score_breakdown = rec.score_breakdown
          /\ rec'.why_matched = rec.why_matched
          /\ candidate_embedding' = candidate_embedding]_vars

C21_Witness ==
    /\ pc = "rescored"
    /\ profile = "edited"
    /\ candidate_embedding = <<"shipped">>
    /\ SemanticSimilarity(other_cosine) # SemanticSimilarity(cosine)
    /\ Breakdown.similarity = SemanticSimilarity(cosine)
    /\ Len(rec.why_matched) = 3

\* ExtractedFlags(): every boolean false, company type and experience level
\* unknown, no required years
AllFalseUnknown ==
    [f \in DOMAIN DefaultFlags |->
        IF f \in {"company_type", "experience_level"} THEN "unknown"
        ELSE IF f = "years_required" THEN <<>>
        ELSE FALSE]

\* C22: score_job on a record without flags returns it scored, with the
\* default flags attached and the score of the same record carrying them.
C22_MissingFlagsDefault ==
    [][(pc = "filtered" /\ rec.extracted_flags = <<>> /\ pc' = "scored") =>
          /\ rec'.extracted_flags = <<AllFalseUnknown>>
          /\ rec'.score # <<>>
          /\ rec'.score_breakdown # <<>>
          /\ rec' = ScoreJob([rec EXCEPT !.extracted_flags = <<AllFalseUnknown>>],
                             CosineWith(candidate_embedding'[1]))]_vars

C22_Witness ==
    /\ pc = "scored"
    /\ rec.title = T_FullstackIos
    /\ cosine = 10000
    /\ rec.extracted_flags = <<AllFalseUnknown>>
    /\ rec.score # <<>>
    /\ Breakdown.experience_fit = Pts(10)
    /\ Breakdown.skill_match = 0

\* the company signal of a record that carries an enrichment a search can
\* return (the search sets no glassdoor_rating)
SearchEnriched ==
    /\ rec.company_enrichment # <<>>
    /\ rec.company_enrichment[1].glassdoor_rating = <<>>

\* C26: a scored record that carries an enrichment returned by
\* search_company_info has a company_signal above 0.
C26_EnrichedSignalPositive ==
    (Scored /\ SearchEnriched) => Breakdown.company_signal > 0

\* the score of an experience level
LevelScore(level) ==
    CASE level \in {"intern", "junior"} -> 15
      [] level = "unknown" -> 10
      [] level = "mid" -> 5
      [] level \in {"senior", "lead"} -> 0

\* C27: experience_fit is 15 for intern and junior, 10 for unknown, 5 for mid,
\* 0 for senior and lead; with years_required it is max(that, 12) up to 2
\* years, min(that, 7) up to 4 years, min(that, 2) above.
C27_ExperienceFitTable ==
    Scored =>
        LET flags == rec.extracted_flags[1]
            level == LevelScore(flags.experience_level)
        IN  Breakdown.experience_fit =
                Pts(IF flags.years_required = <<>> THEN level
                    ELSE IF flags.years_required[1] <= 2
                         THEN (IF level > 12 THEN level ELSE 12)
                    ELSE IF flags.years_required[1] <= 4
                         THEN (IF level < 7 THEN level ELSE 7)
                    ELSE (IF level < 2 THEN level ELSE 2))

C27_Witness ==
    /\ pc = "scored"
    /\ rec.extracted_flags[1].experience_level = "senior"
    /\ rec.extracted_flags[1].years_required = <<2>>
    /\ Breakdown.experience_fit = Pts(12)

\* the first n entries of a sequence
FirstN(s, n) == [i \in 1..(IF Len(s) < n THEN Len(s) ELSE n) |-> s[i]]

\* the reasons score_job collects for rec, before the cut to 3
Reasons ==
    LET flags == rec.extracted_flags[1]
    IN  FirstN(ComputeSkillMatch(flags).reasons, 2)
          \o (IF Breakdown.experience_fit >= Pts(10)
              THEN ComputeExperienceFit(flags).reasons ELSE <<>>)
          \o (IF Breakdown.company_signal >= Pts(7)
              THEN FirstN(ComputeCompanySignal(flags, rec.company_enrichment).reasons, 1)
              ELSE <<>>)

\* C28: after score_job, also after a second call, why_matched is the first 3
\* of: the first two skill reasons, the experience reason if experience_fit
\* >= 10, the company reason if company_signal >= 7.
C28_WhyMatched ==
    Scored =>
        /\ rec.why_matched = FirstN(Reasons, 3)
        /\ Len(rec.why_matched) <= 3

C28_Witness ==
    /\ pc = "rescored"
    /\ Len(Reasons) = 4
    /\ Len(rec.why_matched) = 3
    /\ rec.why_matched[3] = "Junior-level role (perfect fit)"

-----------------------------------------------------------------------------
(* Claims about the ranker *)

NonIncreasing(jobs) ==
    \A i \in 1..Len(jobs) - 1 : jobs[i].score[1] >= jobs[i + 1].score[1]

AboveThreshold(jobs) ==
    \A i \in DOMAIN jobs : jobs[i].score # <<>> /\ jobs[i].score[1] >= min_score

\* C11: whatever the input list, min_score and top_n are, the list rank_jobs
\* returns has non-increasing scores, no score below min_score, and at most
\* top_n records.
C11_RankerMonotone ==
    rank_result = "returned" =>
        /\ AboveThreshold(ranked_jobs)
        /\ NonIncreasing(ranked_jobs)
        /\ Len(ranked_jobs) <= top_n

\* C11 as it holds: the same, with the length bound for a top_n that is not
\* negative.
C11_RankerMonotoneNonNegativeTopN ==
    rank_result = "returned" =>
        /\ AboveThreshold(ranked_jobs)
        /\ NonIncreasing(ranked_jobs)
        /\ top_n >= 0 => Len(ranked_jobs) <= top_n

C11_Witness ==
    /\ rank_result = "returned"
    /\ top_n = 2
    /\ Len(ranked_jobs) = 2
    /\ Len(Qualified(filtered_jobs, min_score)) > 2
    /\ \E i \in DOMAIN filtered_jobs :
          filtered_jobs[i].score # <<>> /\ filtered_jobs[i].score[1] < min_score

\* positions of the input that qualify, best first: a higher score first, and
\* among equal scores the earlier position first
QualifiedPositions ==
    { i \in DOMAIN filtered_jobs :
        filtered_jobs[i].score # <<>> /\ filtered_jobs[i].score[1] >= min_score }

Before(i, k) ==
    \/ filtered_jobs[i].score[1] > filtered_jobs[k].score[1]
    \/ filtered_jobs[i].score[1] = filtered_jobs[k].score[1] /\ i < k

\* the number of qualifying positions ranked before position i
RankOf(i) == Cardinality({k \in QualifiedPositions : Before(k, i)})

\* C12: rank_jobs returns exactly the first top_n of the input records with a
\* score that is not None and at least min_score, by descending score, equal
\* scores in input order; a record without score is left out, not counted as 0.
C12_RankerExact ==
    (rank_result = "returned" /\ top_n >= 0) =>
        /\ Len(ranked_jobs) = Min(top_n, Cardinality(QualifiedPositions))
        /\ \A i \in QualifiedPositions :
              RankOf(i) < top_n => ranked_jobs[RankOf(i) + 1] = filtered_jobs[i]
        /\ \A i \in DOMAIN ranked_jobs : ranked_jobs[i].score # <<>>

C12_Witness ==
    /\ rank_result = "returned"
    /\ filtered_jobs = ScoredJobs(ScenarioScores)
    /\ min_score = Pts(50)
    /\ top_n = 3
    /\ ranked_jobs = << filtered_jobs[8], filtered_jobs[1], filtered_jobs[3] >>

\* C13: a record whose score is None, handed to rank_jobs, makes the run fail
\* with an error; it is not dropped.
C13_NullScoreFailsLoudly ==
    (rank_result # "none" /\ \E i \in DOMAIN filtered_jobs :
                                filtered_jobs[i].score = <<>>)
        => rank_result = "raised"

-----------------------------------------------------------------------------
(* Claims about the freshness functions *)

\* the text of rec names a year more than one year before the current one in
\* one of the seasonal or cohort phrases
OldYearMention ==
    \E year \in 1990..(now.year - 2) :
        \E pattern \in YearPatterns(year) :
            Contains(Lower(rec.title \o <<" ">> \o rec.description), pattern)

ClosureMention ==
    \E keyword \in ClosedKeywords :
        Contains(Lower(rec.title \o <<" ">> \o rec.description), keyword)

\* C15: is_likely_stale returns True whenever the text joins a seasonal or
\* cohort keyword with a year more than one year behind the current year, or
\* holds a closure phrase.
C15_StaleOnOldYearOrClosure ==
    pc = "checked" => ((OldYearMention \/ ClosureMention) => stale)

-----------------------------------------------------------------------------
(* Claims about the run *)

\* what a scraper delivered of each record of a list
Delivered(jobs) ==
    [i \in DOMAIN jobs |->
        <<jobs[i].url, jobs[i].title, jobs[i].company, jobs[i].description>>]

\* the freshness stage has been left, by return, by exception or to step 2.7
AfterFreshness == op = "freshness"

FreshnessRaised == run_pc = "raised" \/ ended_by = "raised"

\* the two sub-checks on a record whose date detection gave found
ChecksPass(job, found, t) ==
    /\ ~found.raised
    /\ ~IsJobTooOld(found.value, MAX_JOB_AGE_DAYS, t)
    /\ ~IsLikelyStale(Chars(job.title), Chars(job.description), t)

BothChecksPass(job, t) ==
    ChecksPass(job, DetectPostedDate(Chars(job.title), Chars(job.description), t), t)

\* C14: the freshness stage keeps exactly the records of its input for which
\* is_job_too_old and is_likely_stale are both false, in order; a record with
\* no detected date and no staleness keyword is among them.
C14_FreshnessKeepsIff ==
    AfterFreshness =>
        /\ ~FreshnessRaised
        /\ Delivered(all_jobs)
             = Delivered(SelectSeq(fresh_input, LAMBDA job : BothChecksPass(job, now)))

\* the age check on a record whose date detection gave found
AgeCheckFails(found, t) ==
    ~found.raised /\ IsJobTooOld(found.value, MAX_JOB_AGE_DAYS, t)

TooOld(job, t) ==
    AgeCheckFails(DetectPostedDate(Chars(job.title), Chars(job.description), t), t)

\* C16: the freshness stage drops every record whose detected posting date is
\* more than MAX_JOB_AGE_DAYS days old, and a record it drops whose date is
\* not that old was dropped by the staleness check.
C16_TooOldDiscarded ==
    AfterFreshness =>
        /\ ~FreshnessRaised
        /\ \A i \in DOMAIN fresh_input :
              LET passed == \E k \in DOMAIN all_jobs :
                             Delivered(all_jobs)[k] = Delivered(fresh_input)[i]
              IN  IF TooOld(fresh_input[i], now)
                  THEN ~passed
                  ELSE ~passed => IsLikelyStale(Chars(fresh_input[i].title),
                                              Chars(fresh_input[i].description), now)

\* what the operator and the calling process see of an ended run
Observed == [exit_code |-> exit_code, fatal |-> "[FATAL ERROR]" \in printed]

\* C17: a run ended by an exception and a run ended by a return without
\* results are told apart by what the program shows: the first prints
\* "[FATAL ERROR]", the second never does.
C17_CrashDistinguished ==
    run_pc = "exited" =>
        /\ ended_by = "raised" => Observed = [exit_code |-> 1, fatal |-> TRUE]
        /\ ended_by = "returned" => Observed = [exit_code |-> 1, fatal |-> FALSE]

C17_Witness ==
    /\ run_pc = "exited"
    /\ ended_by = "raised"
    /\ stages = <<"dedup", "freshness">>
    /\ Observed = [exit_code |-> 1, fatal |-> TRUE]

\* the stages of run_pipeline in the order of its steps 2 to 6
StageOrder ==
    <<"dedup", "freshness", "extraction", "hard filter", "scoring", "ranking">>

IsPrefix(s, t) == Len(s) <= Len(t) /\ s = SubSeq(t, 1, Len(s))

\* C19: the stages a run enters are the first stages of StageOrder, and when
\* the freshness stage is entered the deduplication store has been written:
\* the file holds the job_id of every record the stage receives.
C19_StagesInOrder ==
    /\ IsPrefix(stages, StageOrder)
    /\ AfterFreshness =>
          /\ lastSave = "saved"
          /\ file.kind = "list"
          /\ IdsOf(fresh_input) \subseteq file.ids

\* C29: when the freshness stage is left it has ended without an exception,
\* and every record it kept carries scraped_date, the time of the run, and
\* posted_date, what detect_posted_date gave for it.
C29_FreshnessStamps ==
    AfterFreshness =>
        /\ ~FreshnessRaised
        /\ \A i \in DOMAIN all_jobs :
              /\ {"scraped_date", "posted_date"} \subseteq DOMAIN all_jobs[i]
              /\ all_jobs[i].scraped_date = NowValue(now)
              /\ all_jobs[i].posted_date =
                     DetectPostedDate(Chars(all_jobs[i].title),
                                      Chars(all_jobs[i].description), now).value

\* C30: a run with skip_dedup leaves the deduplication store as it is at
\* every step, never enters the dedup stage, and passes every scraped record
\* on to the freshness stage, those whose job_id the store holds included.
C30_SkipDedupLeavesStore ==
    [][skip_dedup =>
          /\ file' = file
          /\ dataDir' = dataDir
          /\ lastSave' = lastSave
          /\ "dedup" \notin Range(stages')
          /\ run_pc = "scraped" => /\ all_jobs' = all_jobs
                                   /\ run_pc' = "deduped"]_vars

C30_Witness ==
    /\ skip_dedup
    /\ op = "freshness"
    /\ file.kind = "list"
    /\ Len(fresh_input) = MaxRun
    /\ \A i \in DOMAIN fresh_input : GenerateJobId(fresh_input[i]) \in file.ids
    /\ lastSave = "none"

-----------------------------------------------------------------------------
(* Claims about the flag extraction *)

\* the flags extract_flags_fallback gives for the record at position i
FallbackOf(i) == ExtractFlagsFallback([llm_jobs[i] EXCEPT !.extracted_flags = <<>>])

-----------------------------------------------------------------------------
(* Claims about the Groq call *)

GroqEnded == groq_pc \in {"returned", "raised"}

\* C23: _call_groq_api makes at most MAX_RETRIES HTTP requests and ends,
\* returning or raising, whatever the answers are, 429 every time included.
C23_CallTerminates ==
    /\ [](Len(answered) <= MAX_RETRIES)
    /\ <>GroqEnded

C23_Witness ==
    /\ groq_pc = "raised"
    /\ Len(answered) = MAX_RETRIES
    /\ \A i \in DOMAIN answered : answered[i].status = "429"
    /\ attempt = MAX_RETRIES
    /\ waited >= 70

-----------------------------------------------------------------------------
(* Claims about the company search *)

\* the same company name but for case and surrounding whitespace
SameCompany(a, b) == Lower(Strip(a)) = Lower(Strip(b))

SearchStep == search_calls' = search_calls + 1

\* C24: a call of search_company_info returns an enrichment; when the name
\* was looked up since the last clear_cache, after a failed lookup too, the
\* call makes no request and returns what the earlier call returned.
C24_RepeatedLookupCached ==
    [][SearchStep =>
          /\ search_returned' # <<>>
          /\ \A i \in DOMAIN looked :
                SameCompany(looked[i].name, looked'[Len(looked')].name) =>
                    /\ requests' = requests
                    /\ api_calls_made' = api_calls_made
                    /\ search_returned' = <<looked[i].result>>]_vars

C24_Witness ==
    /\ tavily_available
    /\ Len(looked) = 2
    /\ looked[1].name # looked[2].name
    /\ SameCompany(looked[1].name, looked[2].name)
    /\ looked[1].result = EmptyResult
    /\ search_returned = <<EmptyResult>>
    /\ Len(requests) = 1
    /\ api_calls_made = 1

\* C25: two consecutive search requests are at least 1.5 s apart.
C25_RequestsSpaced ==
    \A i \in 1..(Len(requests) - 1) :
        requests[i + 1] - requests[i] >= rate_limit_delay

====
